---- MODULE Spec2Model ----
(***************************************************************************)
(* NBA (EMMA architecture) main program: process lock, argument parsing,   *)
(* configuration load, NIC setup, software rings, phased bring-up of the   *)
(* coprocessor, computation and I/O workers, and signal-driven shutdown.   *)
(*                                                                         *)
(* main() and handle_signal() are translated from src/src/main.cc.  The    *)
(* worker loops (nba::coproc_loop, nba::io_loop) are not part of the       *)
(* sources at hand; their steps follow the start-up diagram in main.cc     *)
(* (lines 488-520) and the design document.                                *)
(***************************************************************************)
EXTENDS Integers, Sequences, FiniteSets, TLC

(* ------------------------------ bounds -------------------------------- *)
MaxNodes == 2
MaxCoproc == 2
MaxComp == 2
MaxIo == 2
MaxArgs == 4
MaxPkts == 2
MaxRx == 4
MaxRetries == 1

\* The values the system configuration gives the parameters main() reads
\* (lines 455, 458, 644-648 and 689), scaled down.
COMP_BATCH_SIZE == 2
BATCHPOOL_SIZE == 3
TASKPOOL_SIZE == 2
COPROC_INPUTQ_LENGTH == 2
COPROC_COMPLETIONQ_LENGTH == 2
COPROC_CTX_PER_COMPTHREAD == 3
COPROC_PPDEPTH == 1

(* -------------------------- program constants ------------------------- *)
EXIT_FAILURE == 1

\* IPsecAuthHMACSHA1.cc: the number of tunnels configure() sets (line 135),
\* the digest length and the size of hmac_buf in process() (160-162), and
\* the offset process() copies the payload to (170).
num_tunnels == 1024
SHA_DIGEST_LENGTH == 20
HMAC_BUF_SIZE == 2048
HMAC_PAD_SIZE == 64

COLLISION_USE_TEMP == "COLLISION_USE_TEMP"

\* Values of optarg tried for -l / --loglevel; "" stands for "option absent".
NoOption == ""
LogLevelArgs ==
    {NoOption, "debug", "info", "notice", "warning", "error", "critical",
     "alert", "emergency", "verbose"}

\* The names the usage text of main.cc (lines 147-149) documents.
DocumentedLevels ==
    {"debug", "info", "notice", "warning", "error", "critical", "alert",
     "emergency"}

\* The rte_log level each documented name stands for.
LevelOf(name) ==
    CASE name = "debug" -> "RTE_LOG_DEBUG"
      [] name = "info" -> "RTE_LOG_INFO"
      [] name = "notice" -> "RTE_LOG_NOTICE"
      [] name = "warning" -> "RTE_LOG_WARNING"
      [] name = "error" -> "RTE_LOG_ERR"
      [] name = "critical" -> "RTE_LOG_CRIT"
      [] name = "alert" -> "RTE_LOG_ALERT"
      [] name = "emergency" -> "RTE_LOG_EMERG"
      [] OTHER -> "INVALID"

INVALID == "INVALID"

\* case 'l' of the getopt loop: the strcmp chain over optarg.  The result is
\* the new value of loglevel, or INVALID where the chain ends in rte_exit.
ParseLogLevel(optarg) ==
    IF optarg = "debug" THEN "RTE_LOG_DEBUG"
    ELSE IF optarg = "info" THEN "RTE_LOG_INFO"
    ELSE IF optarg = "notice" THEN "RTE_LOG_NOTICE"
    ELSE IF optarg = "warning" THEN "RTE_LOG_WARNING"
    ELSE IF optarg = "error" THEN "RTE_LOG_ERR"
    ELSE IF optarg = "critical" THEN "RTE_LOG_CRIT"
    ELSE IF optarg = "emergency" THEN "RTE_LOG_EMERG"
    ELSE INVALID

\* unsigned loglevel = RTE_LOG_INFO;
DefaultLogLevel == "RTE_LOG_INFO"

\* A main() that never asks for the temp-directory placement.
NoCollisionFlags(root) == {}

\* if (geteuid() != 0) collision_flag |= COLLISION_USE_TEMP;
CollisionFlags(root) == IF root THEN {} ELSE {COLLISION_USE_TEMP}

\* if (optind + 2 < argc - 1): with npos = argc - optind positional arguments.
NotEnoughCheck(npos) == 2 < npos - 1

\* The for loop over the positional arguments reaches its default: branch.
TooManyCheck(npos) == npos > 2

(* --------------------------- configurations --------------------------- *)
NodeIds(n) == 0 .. (n - 1)

SortedSeqs(S, lo, hi) ==
    {s \in UNION {[1 .. k -> S] : k \in lo .. hi} :
        \A i \in 1 .. Len(s) : \A j \in i .. Len(s) : s[i] <= s[j]}

NoConf == [num_nodes |-> 0, coproc |-> <<>>, comp |-> <<>>, io |-> <<>>]

\* What load_config() can leave in coproc_thread_confs, comp_thread_confs and
\* io_thread_confs: each coprocessor and computation thread is placed on a
\* NUMA node, each I/O thread names the SW RX queue (hence the computation
\* thread) it feeds.  Threads are listed in core order.
Configs ==
    UNION {
        {[num_nodes |-> n, coproc |-> cp, comp |-> cm, io |-> io] :
            cp \in SortedSeqs(NodeIds(n), 0, MaxCoproc),
            io \in SortedSeqs(1 .. Len(cm), 1, MaxIo)} :
        <<n, cm>> \in UNION {{<<n, cm>> : cm \in SortedSeqs(NodeIds(n), 1, MaxComp)} :
                               n \in 1 .. MaxNodes}}

(* ------------------------------ packets ------------------------------ *)
Packets == 1 .. MaxPkts

\* The software rings: the RX ring and the task-completion ring of each
\* computation worker, the TX and drop rings of each I/O worker, the task
\* input ring of each coprocessor worker.
RingIds ==
    ({"rx", "done"} \X (1 .. MaxComp)) \cup ({"tx", "drop"} \X (1 .. MaxIo))
        \cup ({"task"} \X (1 .. MaxCoproc))

\* The configurations of the nominal environment: one node, one I/O worker
\* paired with one computation worker, and up to MaxCoproc coprocessor
\* workers.
NominalConfigs ==
    {[num_nodes |-> 1, coproc |-> cp, comp |-> <<0>>, io |-> <<1>>] :
        cp \in SortedSeqs({0}, 0, MaxCoproc)}

\* The configuration of the executor's environment: one node, one I/O
\* worker, its computation worker and one coprocessor worker.
ExecConfigs == {[num_nodes |-> 1, coproc |-> <<0>>, comp |-> <<0>>, io |-> <<1>>]}

(* --------------------------- element graphs --------------------------- *)
\* The actions process() and postproc() hand to the executor.
DROP == <<"DROP", 0>>
CONTINUE(out_port) == <<"CONTINUE", out_port>>

\* The elements of the pipelines below.  ToOutput is the sink whose packets
\* go to the TX ring.
Elements == {"Discard", "Classifier", "IPsecAuthHMACSHA1", "ToOutput"}

\* IPsecAuthHMACSHA1 derives from OffloadableElement.
Offloadable(e) == e = "IPsecAuthHMACSHA1"

\* No pipeline has been built.
NoGraph == [root |-> "none", edges |-> {}]

\* The pipelines a pipeline configuration may describe: edges are
\* <<element, out port, downstream element>>.
\*   FromDPDK(0) -> Discard
\*   FromDPDK(0) -> Classifier; Classifier[0] -> ToOutput; Classifier[1] -> ToOutput
\*   FromDPDK(0) -> Classifier; Classifier[0] -> IPsecAuthHMACSHA1 -> ToOutput;
\*                              Classifier[1] -> ToOutput
Pipelines ==
    {[root |-> "Discard", edges |-> {}],
     [root |-> "Classifier",
      edges |-> {<<"Classifier", 0, "ToOutput">>,
                 <<"Classifier", 1, "ToOutput">>}],
     [root |-> "Classifier",
      edges |-> {<<"Classifier", 0, "IPsecAuthHMACSHA1">>,
                 <<"Classifier", 1, "ToOutput">>,
                 <<"IPsecAuthHMACSHA1", 0, "ToOutput">>}]}

\* The out ports of element e that graph g wires, and what they lead to.
OutPorts(g, e) == {t[2] : t \in {u \in g.edges : u[1] = e}}
Downstream(g, e, k) == (CHOOSE t \in g.edges : t[1] = e /\ t[2] = k)[3]

\* What can go wrong in the per-port loop of lines 349-435.
NicFaults ==
    {"none", "rxq_count", "txq_count", "tx_queue_setup", "mempool",
     "rx_queue_setup"}

VARIABLES
    pc,               \* where main() stands
    proc,             \* "running", "exited" (return / rte_exit) or "crashed"
    exit_code,        \* the exit status once proc = "exited", -1 before
    call,             \* the latest library call of main() and what it was given
    lock_state,       \* "untried", "held" or "busy": result of check_collision
    eal_ready,        \* rte_eal_init has succeeded
    env,              \* the environment: "any" input and fault, "nominal", or "signals" at any moment
    preserve_latency, \* the local variable preserve_latency
    system_config,    \* the buffer system_config while main() has yet to read it
    pipeline_config,  \* the buffer pipeline_config while main() has yet to read it
    conf,             \* the loaded system configuration
    nic_ready,        \* HW queues and mempools are set up, ports started
    queues_ready,     \* SW rings and their watchers exist
    handlers,         \* SIGINT/SIGTERM handlers are registered
    table_alloc,      \* coprocessor_threads has been allocated
    coprocessor_threads, \* node id -> coprocessor worker recorded there (0 = nullptr)
    idx,              \* loop index of main's current per-thread loop
    cw,               \* state of each coprocessor worker
    barriers,         \* the CountedBarriers that have been released: <<name, worker>>
    comp_ctx_to_init_offloadable, \* per coprocessor worker: computation context handed over (0 = NULL)
    loops,            \* workers whose ctx->loop has been set: <<kind, worker>>
    offload_inits,    \* per coprocessor worker: offload init runs on its device
    comp_ready,       \* computation contexts and element graphs are built
    global_inits,     \* number of initialize_graph_global() calls
    per_node_inits,   \* node id -> number of initialize_graph_per_node() calls
    per_thread_inits, \* computation worker -> number of initialize_graph_per_thread() calls
    todo_nodes,       \* nodes of existing_nodes the current loop has not visited yet
    cur_node,         \* node whose offload hand-off main is waiting for (-1 = none)
    io_alloc,         \* io_threads has been allocated
    io_filled,        \* number of entries of io_threads that have been filled in
    comp_io,          \* computation worker -> its io_ctx (0 = nullptr)
    io_comp,          \* I/O worker -> its comp_ctx (0 = NULL)
    ready_flag,       \* ready_flag
    iow,              \* state of each I/O worker
    compw,            \* state of each computation worker
    held,             \* packet references held by workers: <<worker, packet>>
    rings,            \* ring id -> the packets queued in it, oldest first
    pool,             \* the free packets of the packet pool, next to allocate first
    graph,            \* the element graph built from the pipeline configuration
    stack,            \* work stack of the executor: [elem, batch, tries], top last
    retry,            \* retry deque of the executor, oldest first
    batch_free,       \* free objects of the batch pool
    task_free,        \* free objects of the task pool
    ctx_free,         \* free compute contexts of the computation worker
    starve,           \* "no", "held" (the device's contexts are withheld) or "resumed"
    ntask,            \* number of tasks submitted so far; a task's id is its rank
    dev,              \* tasks the coprocessor worker has on the device
    completed,        \* tasks taken off the completion ring, postproc not yet run
    rx_order,         \* packets in the order the NIC delivered them
    seen,             \* element -> packets in the order they reached it
    post_order,       \* <<task id, device output>> in the order postproc observed them
    sent,             \* packets in the order they were transmitted
    epkts,            \* element test bench: the packets of the batch, slot order
    estage,           \* element test bench: "build", "cpu", "pending", "post", "done" or "crashed"
    eidx,             \* element test bench: slot the element handles next
    eout,             \* element test bench: slots pushed to output port 0, in order
    edev,             \* element test bench: annotation tables the device was given
    cstate,           \* device bench: compute context -> its state
    cready,           \* device bench: the contexts the device has to hand out
    cargs,            \* device bench: compute context -> kernel arguments staged
    ccall,            \* device bench: the latest call on the device and its result
    hring,            \* ring bench: the items in the ring, oldest first
    hnotif,           \* ring bench: the notifier of the ring is set
    hprod,            \* ring bench: what the producer does next
    hcons,            \* ring bench: what the consumer does next
    hnext,            \* ring bench: the number of the next item produced
    hgot,             \* ring bench: the items the consumer has dequeued
    din,              \* datablock bench: the batches of a task, each the items of its live packets
    dlayout,          \* datablock bench: "fixed" or "variable" stride
    dpacked,          \* datablock bench: the packed kernel argument
    dout,             \* datablock bench: the batches unpacked from it
    dstage,           \* datablock bench: "input", "chosen", "packed" or "unpacked"
    io_nodes,         \* I/O bench: the NUMA node of each configured I/O thread
    per_node_counts,  \* I/O bench: node -> I/O contexts created on it
    node_master_ctxs, \* I/O bench: node -> its master context (0 = nullptr)
    io_ctxs,          \* I/O bench: the I/O contexts created so far
    comp_nodes,       \* comp bench: the NUMA node of each configured computation thread
    nls,              \* comp bench: node -> its NodeLocalStorage object (0 = nullptr)
    heap,             \* comp bench: the objects NEW has created so far
    comp_ctxs,        \* comp bench: the computation contexts created so far
    taskinq_privs,    \* comp bench: computation thread -> the coprocessor thread behind its task input queue (0 = nullptr)
    ready_contexts,   \* comp bench: coprocessor thread -> the contexts its device can still hand out
    nls_regions,      \* node -> the names allocated in its NodeLocalStorage
    nls_log,          \* the accesses to NodeLocalStorage made so far
    hmac_sa_entry_array, \* the global pointer to the HMAC key array
    hmac_frees,       \* how many times free() was called on the key array
    hmac_log,         \* the uses of the pointer so far: <<use, pointer at that moment>>
    notified,         \* terminate watchers that have been fired: <<kind, worker>>
    hpc,              \* where handle_signal() stands on the main thread ("idle" = not running)
    terminated,       \* _terminated
    sig_threads       \* the threads handle_signal() has run on so far

bootvars ==
    <<env, lock_state, eal_ready, preserve_latency, system_config,
      pipeline_config, conf, nic_ready, queues_ready, handlers>>

mainvars ==
    <<table_alloc, coprocessor_threads, idx, comp_ctx_to_init_offloadable,
      comp_ready, global_inits, per_node_inits, per_thread_inits, todo_nodes,
      cur_node, io_alloc, io_filled, comp_io, io_comp, ready_flag>>

workervars == <<cw, loops, offload_inits, iow, compw>>

datavars == <<held, rings, pool>>

\* What main() sizes for the executor, what the executor works on, and
\* what it has done so far.
sizevars == <<graph, batch_free, task_free, ctx_free>>

runvars == <<stack, retry, starve, ntask, dev, completed>>

logvars == <<rx_order, seen, post_order, sent>>

\* The test bench of a single element.
elemvars == <<epkts, estage, eidx, eout, edev>>

\* The test bench of a compute device and its contexts.
devvars == <<cstate, cready, cargs, ccall>>

\* The test bench of one hand-off ring and its notifier.
chanvars == <<hring, hnotif, hprod, hcons, hnext, hgot>>

\* The test bench of the datablock layout.
dbvars == <<din, dlayout, dpacked, dout, dstage>>

\* The test bench of the loop that creates the I/O contexts.
mastervars == <<io_nodes, per_node_counts, node_master_ctxs, io_ctxs>>

\* The test bench of the loop that creates the computation contexts.
compbvars == <<comp_nodes, nls, heap, comp_ctxs, taskinq_privs, ready_contexts>>

\* The state of the component test benches.
benchvars == <<elemvars, devvars, chanvars, dbvars, mastervars, compbvars>>

\* NodeLocalStorage, as the elements' init functions and handlers use it.
nlsvars == <<nls_regions, nls_log>>

\* What main()'s bring-up outside the init phases and the executor leave
\* alone.
hmacvars == <<hmac_sa_entry_array, hmac_frees, hmac_log>>

unitvars == <<benchvars, nlsvars, hmacvars>>

execvars == <<sizevars, runvars, logvars, unitvars>>

sigvars == <<notified, hpc, terminated, sig_threads>>

vars ==
    <<pc, proc, exit_code, call, bootvars, mainvars, workervars, barriers,
      sigvars, datavars, execvars>>

NumCoproc == Len(conf.coproc)
NumComp == Len(conf.comp)
NumIo == Len(conf.io)
Coprocs == 1 .. NumCoproc
Comps == 1 .. NumComp
Ios == 1 .. NumIo

NoCall == [fn |-> "none"]

\* A path buffer: as allocated by new char[PATH_MAX], filled by strncpy from
\* argv, or already taken by its one reader.
UNINIT == "uninitialised"
GIVEN == "given"
TAKEN == "taken"

\* The inputs the environment may present.  The nominal environment is a
\* valid command line on a machine where bring-up meets no fault.
AnyInput == env = "any"
\* The executor's environments: in "exec" the task pool binds before the cap
\* on outstanding offloads, in "depth" the cap binds first.
ExecEnv == env \in {"exec", "depth"}
LockResults == IF AnyInput THEN BOOLEAN ELSE {TRUE}
EalResults == IF AnyInput THEN BOOLEAN ELSE {TRUE}
LogLevelChoices == IF AnyInput THEN LogLevelArgs ELSE {NoOption}
PreserveLatencyChoices == IF AnyInput \/ env = "depth" THEN {FALSE} ELSE BOOLEAN
ArgCounts == IF AnyInput THEN 0 .. MaxArgs ELSE {2}
PortsFound == IF AnyInput THEN BOOLEAN ELSE {TRUE}
LoadResults ==
    IF AnyInput THEN Configs \cup {NoConf}
    ELSE IF ExecEnv THEN ExecConfigs
    ELSE NominalConfigs
PipelineChoices ==
    IF env = "exec" THEN Pipelines
    ELSE IF env = "depth" THEN {g \in Pipelines : \E e \in Elements :
                                   Offloadable(e) /\ g.root # e
                                   /\ \E t \in g.edges : t[3] = e}
    ELSE {NoGraph}
PoolSize == IF ExecEnv THEN MaxRx ELSE MaxPkts
NicResults == IF AnyInput THEN NicFaults ELSE {"none"}

\* The state after process start, common to every environment.
Start ==
    /\ pc = "lock"
    /\ proc = "running"
    /\ exit_code = -1
    /\ call = NoCall
    /\ lock_state = "untried"
    /\ eal_ready = FALSE
    /\ preserve_latency = FALSE
    /\ system_config = UNINIT
    /\ pipeline_config = UNINIT
    /\ conf = NoConf
    /\ nic_ready = FALSE
    /\ queues_ready = FALSE
    /\ handlers = FALSE
    /\ table_alloc = FALSE
    /\ coprocessor_threads = <<>>
    /\ idx = 0
    /\ cw = <<>>
    /\ barriers = {}
    /\ comp_ctx_to_init_offloadable = <<>>
    /\ loops = {}
    /\ offload_inits = <<>>
    /\ comp_ready = FALSE
    /\ global_inits = 0
    /\ per_node_inits = <<>>
    /\ per_thread_inits = <<>>
    /\ todo_nodes = {}
    /\ cur_node = -1
    /\ io_alloc = FALSE
    /\ io_filled = 0
    /\ comp_io = <<>>
    /\ io_comp = <<>>
    /\ ready_flag = FALSE
    /\ iow = <<>>
    /\ compw = <<>>
    /\ held = {}
    /\ rings = [r \in RingIds |-> <<>>]
    /\ pool = [k \in 1 .. PoolSize |-> k]
    /\ graph = NoGraph
    /\ stack = <<>>
    /\ retry = <<>>
    /\ batch_free = 0
    /\ task_free = 0
    /\ ctx_free = 0
    /\ starve = "no"
    /\ ntask = 0
    /\ dev = {}
    /\ completed = {}
    /\ rx_order = <<>>
    /\ seen = [e \in Elements |-> <<>>]
    /\ post_order = <<>>
    /\ sent = <<>>
    /\ epkts = <<>>
    /\ estage = "build"
    /\ eidx = 0
    /\ eout = <<>>
    /\ edev = <<>>
    /\ cstate = <<>>
    /\ cready = {}
    /\ cargs = <<>>
    /\ ccall = NoCall
    /\ hring = <<>>
    /\ hnotif = FALSE
    /\ hprod = "idle"
    /\ hcons = "off"
    /\ hnext = 1
    /\ hgot = <<>>
    /\ din = <<>>
    /\ dlayout = "none"
    /\ dpacked = <<>>
    /\ dout = <<>>
    /\ dstage = "input"
    /\ io_nodes = <<>>
    /\ per_node_counts = <<>>
    /\ node_master_ctxs = <<>>
    /\ io_ctxs = <<>>
    /\ comp_nodes = <<>>
    /\ nls = <<>>
    /\ heap = 0
    /\ comp_ctxs = <<>>
    /\ taskinq_privs = <<>>
    /\ ready_contexts = <<>>
    /\ nls_regions = [n \in NodeIds(MaxNodes) |-> {}]
    /\ nls_log = {}
    /\ hmac_sa_entry_array = "NULL"
    /\ hmac_frees = 0
    /\ hmac_log = {}
    /\ notified = {}
    /\ hpc = "idle"
    /\ terminated = FALSE
    /\ sig_threads = {}

Init == env = "any" /\ Start

\* main() runs: the process is alive and the main thread is not inside the
\* signal handler.
MainAt(p) == pc = p /\ proc = "running" /\ hpc = "idle"

\* return <code> from main, or rte_exit(<code>, ...).
Exit(code) == /\ proc' = "exited"
              /\ exit_code' = code
              /\ pc' = "exited"

\* The process is killed by SIGSEGV (null or wild pointer) or SIGABRT (assert).
Crash == /\ proc' = "crashed"
         /\ pc' = pc
         /\ exit_code' = exit_code

Goto(p) == /\ pc' = p
           /\ proc' = proc
           /\ exit_code' = exit_code

(* ----------------------- main(): lock and arguments -------------------- *)
\* Lines 102-119: the single-instance lock.
CheckCollision ==
    /\ MainAt("lock")
    /\ \E root \in BOOLEAN, ok \in LockResults :
        /\ call' = [fn |-> "check_collision", root |-> root,
                    flags |-> CollisionFlags(root)]
        /\ lock_state' = IF ok THEN "held" ELSE "busy"
        /\ IF ok THEN Goto("eal") ELSE Exit(1)
    /\ UNCHANGED <<datavars, execvars, env, eal_ready, preserve_latency, system_config,
                   pipeline_config, conf, nic_ready, queues_ready, handlers,
                   mainvars, workervars, barriers, sigvars>>

\* Lines 153-158: rte_eal_init.
EalInit ==
    /\ MainAt("eal")
    /\ \E ok \in EalResults :
        /\ eal_ready' = ok
        /\ call' = [fn |-> "rte_eal_init"]
        /\ IF ok THEN Goto("args") ELSE Exit(EXIT_FAILURE)
    /\ UNCHANGED <<datavars, execvars, env, lock_state, preserve_latency, system_config,
                   pipeline_config, conf, nic_ready, queues_ready, handlers,
                   mainvars, workervars, barriers, sigvars>>

\* The level main() goes on with for a given -l argument.
LogLevelFor(optarg) ==
    IF optarg = NoOption THEN DefaultLogLevel ELSE ParseLogLevel(optarg)

\* Lines 212-219: case 0 and case 1 of the loop over the positional
\* arguments copy argv into the two path buffers.
SystemConfigAfter(n) == IF n >= 1 THEN GIVEN ELSE UNINIT
PipelineConfigAfter(n) == IF n >= 2 THEN GIVEN ELSE UNINIT

\* Lines 160-229: the getopt loop, the positional arguments and
\* rte_set_log_level(loglevel).
ParseArgs ==
    /\ MainAt("args")
    /\ \E l \in LogLevelChoices, pl \in PreserveLatencyChoices, n \in ArgCounts :
        IF LogLevelFor(l) = INVALID
        THEN /\ call' = [fn |-> "rte_exit", optarg |-> l, level |-> INVALID,
                         npos |-> -1]
             /\ Exit(EXIT_FAILURE)
             /\ UNCHANGED <<preserve_latency, system_config, pipeline_config>>
        ELSE /\ preserve_latency' = pl
             /\ IF NotEnoughCheck(n) \/ TooManyCheck(n)
                THEN /\ call' = [fn |-> "rte_exit", optarg |-> l,
                                 level |-> LogLevelFor(l), npos |-> n]
                     /\ Exit(EXIT_FAILURE)
                     /\ UNCHANGED <<system_config, pipeline_config>>
                ELSE /\ call' = [fn |-> "rte_set_log_level", optarg |-> l,
                                 level |-> LogLevelFor(l), npos |-> n]
                     /\ system_config' = SystemConfigAfter(n)
                     /\ pipeline_config' = PipelineConfigAfter(n)
                     /\ Goto("ports")
    /\ UNCHANGED <<datavars, execvars, env, lock_state, eal_ready, conf, nic_ready,
                   queues_ready, handlers, mainvars, workervars, barriers,
                   sigvars>>

\* Lines 231-234: rte_eth_dev_count.
CountPorts ==
    /\ MainAt("ports")
    /\ \E found \in PortsFound :
        /\ call' = [fn |-> "rte_eth_dev_count", found |-> found]
        /\ IF found THEN Goto("load_config") ELSE Exit(EXIT_FAILURE)
    /\ UNCHANGED <<datavars, execvars, bootvars, mainvars, workervars, barriers,
                   sigvars>>

\* Lines 265-270: load_config(system_config).  With system_config never
\* written the path is whatever the allocation held, so the load may fail or
\* find some configuration, as it may for a path that was given.
LoadConfig ==
    /\ MainAt("load_config")
    /\ call' = [fn |-> "load_config", path |-> system_config]
    /\ system_config' = TAKEN
    /\ \E c \in LoadResults :
        IF c = NoConf
        THEN /\ Exit(EXIT_FAILURE)
             /\ UNCHANGED <<conf, coprocessor_threads, cw,
                            comp_ctx_to_init_offloadable, offload_inits,
                            per_node_inits, per_thread_inits, comp_io, io_comp,
                            iow, compw>>
        ELSE /\ conf' = c
             /\ coprocessor_threads' = [n \in NodeIds(c.num_nodes) |-> 0]
             /\ cw' = [i \in 1 .. Len(c.coproc) |-> "unspawned"]
             /\ comp_ctx_to_init_offloadable' = [i \in 1 .. Len(c.coproc) |-> 0]
             /\ offload_inits' = [i \in 1 .. Len(c.coproc) |-> 0]
             /\ per_node_inits' = [n \in NodeIds(c.num_nodes) |-> 0]
             /\ per_thread_inits' = [j \in 1 .. Len(c.comp) |-> 0]
             /\ comp_io' = [j \in 1 .. Len(c.comp) |-> 0]
             /\ io_comp' = [i \in 1 .. Len(c.io) |-> 0]
             /\ iow' = [i \in 1 .. Len(c.io) |-> "unlaunched"]
             /\ compw' = [j \in 1 .. Len(c.comp) |-> "waiting"]
             /\ Goto("nic")
    /\ UNCHANGED <<datavars, execvars, env, lock_state, eal_ready, preserve_latency,
                   pipeline_config, nic_ready, queues_ready, handlers,
                   table_alloc, idx, comp_ready, global_inits, todo_nodes,
                   cur_node, io_alloc, io_filled, ready_flag, loops, barriers,
                   sigvars>>

\* Lines 349-435: HW queues, mempools, port start.
NicSetup ==
    /\ MainAt("nic")
    /\ \E f \in NicResults :
        /\ nic_ready' = (f = "none")
        /\ call' = [fn |-> "nic_setup", fault |-> f]
        /\ IF f = "none" THEN Goto("queues") ELSE Exit(EXIT_FAILURE)
    /\ UNCHANGED <<datavars, execvars, env, lock_state, eal_ready, preserve_latency,
                   system_config, pipeline_config, conf, queues_ready,
                   handlers, mainvars, workervars, barriers, sigvars>>

\* Lines 437-476: one rte_ring and one ev_async watcher per queue_conf.
CreateQueues ==
    /\ MainAt("queues")
    /\ queues_ready' = TRUE
    /\ call' = [fn |-> "rte_ring_create"]
    /\ Goto("signals")
    /\ UNCHANGED <<datavars, execvars, env, lock_state, eal_ready, preserve_latency,
                   system_config, pipeline_config, conf, nic_ready, handlers,
                   mainvars, workervars, barriers, sigvars>>

\* Lines 478-486: signal(SIGINT, handle_signal); signal(SIGTERM, handle_signal).
RegisterSignals ==
    /\ MainAt("signals")
    /\ handlers' = TRUE
    /\ call' = [fn |-> "signal"]
    /\ Goto("table_alloc")
    /\ UNCHANGED <<datavars, execvars, env, lock_state, eal_ready, preserve_latency,
                   system_config, pipeline_config, conf, nic_ready,
                   queues_ready, mainvars, workervars, barriers, sigvars>>

(* ------------------ main(): coprocessor workers ----------------------- *)
\* numa_node_of_cpu(conf.core_id), forced to 0 when is_numa_disabled.
CoprocNode(i) == IF conf.num_nodes = 1 THEN 0 ELSE conf.coproc[i]

\* Lines 522-526: coprocessor_threads = new spawned_thread[num_nodes], every
\* coproc_ctx set to nullptr.
AllocCoprocTable ==
    /\ MainAt("table_alloc")
    /\ table_alloc' = TRUE
    /\ idx' = 1
    /\ call' = [fn |-> "new"]
    /\ Goto(IF NumCoproc > 0 THEN "coproc_spawn" ELSE "comp_prep")
    /\ UNCHANGED <<datavars, execvars, bootvars, coprocessor_threads,
                   comp_ctx_to_init_offloadable, comp_ready, global_inits,
                   per_node_inits, per_thread_inits, todo_nodes, cur_node,
                   io_alloc, io_filled, comp_io, io_comp, ready_flag,
                   workervars, barriers, sigvars>>

\* Lines 532-597: fill the context of coprocessor worker idx, record it in
\* the node-indexed table and pthread_create it.
SpawnCoproc ==
    /\ MainAt("coproc_spawn")
    /\ coprocessor_threads' =
           [coprocessor_threads EXCEPT ![CoprocNode(idx)] = idx]
    /\ cw' = [cw EXCEPT ![idx] = "spawned"]
    /\ call' = [fn |-> "pthread_create"]
    /\ Goto("coproc_wait")
    /\ UNCHANGED <<datavars, execvars, compw, bootvars, table_alloc, idx,
                   comp_ctx_to_init_offloadable, comp_ready, global_inits,
                   per_node_inits, per_thread_inits, todo_nodes, cur_node,
                   io_alloc, io_filled, comp_io, io_comp, ready_flag, loops,
                   offload_inits, iow, barriers, sigvars>>

\* The spawning loop without the wait of line 600.
SpawnsAllAtOnce(i) == TRUE

\* ctx->thread_init_done_barrier->wait() returns.
ThreadInitDone(i) == <<"thread_init_done", i>> \in barriers

\* Lines 599-601: "Initialize one-by-one."
WaitCoprocInit ==
    /\ MainAt("coproc_wait")
    /\ ThreadInitDone(idx)
    /\ idx' = idx + 1
    /\ call' = [fn |-> "wait"]
    /\ Goto(IF idx + 1 > NumCoproc THEN "comp_prep" ELSE "coproc_spawn")
    /\ UNCHANGED <<datavars, execvars, bootvars, table_alloc, coprocessor_threads,
                   comp_ctx_to_init_offloadable, comp_ready, global_inits,
                   per_node_inits, per_thread_inits, todo_nodes, cur_node,
                   io_alloc, io_filled, comp_io, io_comp, ready_flag,
                   workervars, barriers, sigvars>>

(* ------------------ main(): computation contexts ---------------------- *)
\* Line 651: ctx->preserve_latency = preserve_latency, for every computation
\* context; the local is not written after the getopt loop.
NoPreserveLatency(j) == FALSE
CtxPreserveLatency(j) == comp_ready /\ preserve_latency

\* Lines 646-647: the sizes the computation worker creates its batch pool
\* and its task pool with.
NumBatchpoolSize == BATCHPOOL_SIZE
OversizedTaskpool == TASKPOOL_SIZE + 1
NumTaskpoolSize == TASKPOOL_SIZE

\* Line 645: ctx->num_coproc_ppdepth = system_params["COPROC_PPDEPTH"].  The
\* "depth" environment sets it below the task pool size; elsewhere it is
\* set above it.
NoPpdepthCap == TASKPOOL_SIZE + COPROC_CTX_PER_COMPTHREAD
NumCoprocPpdepth ==
    IF env = "depth" THEN COPROC_PPDEPTH ELSE TASKPOOL_SIZE + COPROC_PPDEPTH

\* Lines 664-713: with coprocessor threads configured, cctx_list receives
\* COPROC_CTX_PER_COMPTHREAD contexts of the device; without, it stays empty.
CctxListSize == IF NumCoproc > 0 THEN COPROC_CTX_PER_COMPTHREAD ELSE 0

\* Lines 605-723: one comp_thread_context and ElementGraph per configured
\* computation thread; build_element_graph(pipeline_config) reads the
\* pipeline path, which is uninitialised memory when it was never given.
PrepareComp ==
    /\ MainAt("comp_prep")
    /\ call' = [fn |-> "build_element_graph", path |-> pipeline_config]
    /\ pipeline_config' = TAKEN
    /\ batch_free' = NumBatchpoolSize
    /\ task_free' = NumTaskpoolSize
    /\ ctx_free' = CctxListSize
    /\ \E ok \in (IF pipeline_config = GIVEN THEN {TRUE} ELSE BOOLEAN) :
        /\ comp_ready' = ok
        /\ IF ok
           THEN /\ \E g \in PipelineChoices : graph' = g
                /\ Goto("global")
           ELSE /\ graph' = graph
                /\ Exit(EXIT_FAILURE)
    /\ UNCHANGED <<datavars, runvars, logvars, unitvars, env, lock_state, eal_ready, preserve_latency,
                   system_config, conf, nic_ready, queues_ready, handlers,
                   table_alloc, coprocessor_threads, idx,
                   comp_ctx_to_init_offloadable, global_inits, per_node_inits,
                   per_thread_inits, todo_nodes, cur_node, io_alloc, io_filled,
                   comp_io, io_comp, ready_flag, workervars, barriers,
                   sigvars>>

(* -------------------------- NodeLocalStorage -------------------------- *)
\* The regions IPsecAuthHMACSHA1 keeps in the storage of its node
\* (part_002, lines 100-130).
H_HMAC_SA_TABLE == "h_hmac_sa_table"
H_HMAC_FLOWS == "h_hmac_flows"
D_HMAC_FLOWS_PTR == "d_hmac_flows_ptr"

\* An I/O worker has been launched: packets may arrive.
TrafficStarted ==
    \E i \in DOMAIN iow : iow[i] \in {"launched", "running", "exited"}

\* One access to the storage of a node: alloc(name), a store into the
\* region, or get_alloc(name) and loads from the region; found tells that
\* the region is among those the node has at that moment.
NlsAccess(op, name, node, phase, regions) ==
    [op |-> op, name |-> name, node |-> node, phase |-> phase,
     found |-> name \in regions, traffic |-> TrafficStarted]

\* initialize_per_node (part_002, lines 100-130): the three regions are
\* allocated, the table and the key array are filled in.
PerNodeAccesses(node) ==
    {NlsAccess("alloc", name, node, "per_node", nls_regions[node]) :
        name \in {H_HMAC_SA_TABLE, H_HMAC_FLOWS, D_HMAC_FLOWS_PTR}}
    \cup {NlsAccess("write", name, node, "per_node",
                     nls_regions[node] \cup {name}) :
             name \in {H_HMAC_SA_TABLE, H_HMAC_FLOWS}}

\* accel_init_handler (part_002, lines 189-200): the key array is read,
\* the device pointer is stored into its region.
OffloadInitAccesses(node) ==
    {NlsAccess("read", H_HMAC_FLOWS, node, "offload", nls_regions[node]),
     NlsAccess("write", D_HMAC_FLOWS_PTR, node, "offload", nls_regions[node])}

\* initialize (part_002, lines 56-75): get_alloc of the three regions.
PerThreadAccesses(node) ==
    {NlsAccess("read", name, node, "per_thread", nls_regions[node]) :
        name \in {H_HMAC_SA_TABLE, H_HMAC_FLOWS, D_HMAC_FLOWS_PTR}}

\* process (part_002, line 167): flows[...] is read.
ProcessAccesses(node) ==
    {NlsAccess("read", H_HMAC_FLOWS, node, "process", nls_regions[node])}

\* existing_nodes: the nodes of the computation contexts (lines 734-737).
ExistingNodes == {conf.comp[j] : j \in Comps}

\* The values of the pointer hmac_sa_entry_array (part_002, lines 25-31):
\* NULL, the array malloc gave, or the address of an array already freed.
NULL_PTR == "NULL"
ALLOCATED == "allocated"
DANGLING == "dangling"

\* initialize() without the assignment of line 72.
KeepsPointer == DANGLING

\* Line 72: hmac_sa_entry_array = NULL.
PointerAfterFree == NULL_PTR

\* Lines 725-730: initialize_graph_global() on the first context;
\* initialize_global() (part_002, 77-98) allocates the key array.
InitGlobal ==
    /\ MainAt("global")
    /\ global_inits' = global_inits + 1
    /\ todo_nodes' = ExistingNodes
    /\ hmac_sa_entry_array' = ALLOCATED
    /\ hmac_log' = hmac_log \cup {<<"malloc", hmac_sa_entry_array>>}
    /\ call' = [fn |-> "initialize_graph_global"]
    /\ Goto("per_node")
    /\ UNCHANGED <<datavars, sizevars, runvars, logvars, benchvars, nlsvars,
                   hmac_frees, bootvars, table_alloc, coprocessor_threads, idx,
                   comp_ctx_to_init_offloadable, comp_ready, per_node_inits,
                   per_thread_inits, cur_node, io_alloc, io_filled, comp_io,
                   io_comp, ready_flag, workervars, barriers, sigvars>>

\* A loop body that leaves node_initialized as it found it.
LeaveUnmarked(flag) == flag

\* node_initialized[node_id] = true;
MarkInitialized(flag) == TRUE

\* The inner loop "for (ctx : comp_thread_ctxs) if (ctx->loc.node_id ==
\* node_id && !node_initialized[node_id]) { ...; node_initialized = true; }"
\* from context j on: how many times its body runs for node.
RECURSIVE BodyRuns(_, _, _)
BodyRuns(j, node, flag) ==
    IF j > NumComp THEN 0
    ELSE IF conf.comp[j] = node /\ ~flag
         THEN 1 + BodyRuns(j + 1, node, MarkInitialized(flag))
         ELSE BodyRuns(j + 1, node, flag)

\* The context the body of that loop runs with first.
FirstCompOn(node) ==
    CHOOSE j \in Comps :
        /\ conf.comp[j] = node
        /\ \A k \in Comps : conf.comp[k] = node => j <= k

\* A main() that goes from per-node init straight to per-thread init.
StraightToPerThread == "per_thread"

\* The phase after per-node init: "if (num_coproc_threads > 0)" (line 756).
AfterPerNode == IF NumCoproc > 0 THEN "offload" ELSE "per_thread"

\* Lines 732-753: one iteration of "for (node_id : existing_nodes)".
\* initialize_per_node() (part_002, 100-130) asserts that the key array is
\* not NULL (122) and copies it into the node's storage (123).
InitPerNode ==
    /\ MainAt("per_node")
    /\ \E n \in todo_nodes :
        IF hmac_sa_entry_array = NULL_PTR
        THEN /\ Crash
             /\ UNCHANGED <<per_node_inits, nls_regions, nls_log, todo_nodes,
                            hmac_log>>
        ELSE /\ per_node_inits' =
                    [per_node_inits EXCEPT ![n] = @ + BodyRuns(1, n, FALSE)]
             /\ nls_regions' =
                    [nls_regions EXCEPT
                        ![n] = {H_HMAC_SA_TABLE, H_HMAC_FLOWS, D_HMAC_FLOWS_PTR}]
             /\ nls_log' = nls_log \cup PerNodeAccesses(n)
             /\ hmac_log' = hmac_log \cup {<<"copy", hmac_sa_entry_array>>}
             /\ todo_nodes' =
                    IF todo_nodes = {n} THEN ExistingNodes ELSE todo_nodes \ {n}
             /\ Goto(IF todo_nodes = {n} THEN AfterPerNode ELSE "per_node")
    /\ idx' = 1
    /\ call' = [fn |-> "initialize_graph_per_node"]
    /\ UNCHANGED <<datavars, sizevars, runvars, logvars, benchvars,
                   hmac_sa_entry_array, hmac_frees, bootvars, table_alloc, coprocessor_threads,
                   comp_ctx_to_init_offloadable, comp_ready, global_inits,
                   per_thread_inits, cur_node, io_alloc, io_filled, comp_io,
                   io_comp, ready_flag, workervars, barriers, sigvars>>

\* Lines 760-769: one iteration of "for (node_id : existing_nodes)" of the
\* offload phase, up to offloadable_init_barrier->proceed().  The context of
\* the node's coprocessor worker is reached through
\* coprocessor_threads[node_id].coproc_ctx without a null check.
OffloadHandoff ==
    /\ MainAt("offload")
    /\ call' = [fn |-> "proceed"]
    /\ \E n \in todo_nodes :
        IF coprocessor_threads[n] = 0
        THEN /\ Crash
             /\ UNCHANGED <<comp_ctx_to_init_offloadable, barriers, cur_node>>
        ELSE /\ comp_ctx_to_init_offloadable' =
                    [comp_ctx_to_init_offloadable
                        EXCEPT ![coprocessor_threads[n]] = FirstCompOn(n)]
             /\ barriers' =
                    barriers \cup {<<"offloadable_init", coprocessor_threads[n]>>}
             /\ cur_node' = n
             /\ Goto("offload_wait")
    /\ UNCHANGED <<datavars, execvars, bootvars, table_alloc, coprocessor_threads, idx,
                   comp_ready, global_inits, per_node_inits, per_thread_inits,
                   todo_nodes, io_alloc, io_filled, comp_io, io_comp,
                   ready_flag, workervars, sigvars>>

\* A main() that does not wait on offloadable_init_done_barrier.
OffloadInitNotAwaited(t) == TRUE

\* A wait on offloadable_init_done_barrier that returns at once.
ReturnsAtOnce(t) == TRUE

\* offloadable_init_done_barrier->wait() of worker t returns.
OffloadInitDone(t) == <<"offloadable_init_done", t>> \in barriers

\* Lines 770-771: wait for the worker, then node_initialized[node_id] = true.
OffloadWait ==
    /\ MainAt("offload_wait")
    /\ OffloadInitDone(coprocessor_threads[cur_node])
    /\ todo_nodes' = todo_nodes \ {cur_node}
    /\ cur_node' = -1
    /\ call' = [fn |-> "wait"]
    /\ Goto(IF todo_nodes = {cur_node} THEN "per_thread" ELSE "offload")
    /\ UNCHANGED <<datavars, execvars, bootvars, table_alloc, coprocessor_threads, idx,
                   comp_ctx_to_init_offloadable, comp_ready, global_inits,
                   per_node_inits, per_thread_inits, io_alloc, io_filled,
                   comp_io, io_comp, ready_flag, workervars, barriers,
                   sigvars>>

\* Lines 777-781: initialize_graph_per_thread() of context idx;
\* initialize() (part_002, 56-75) frees the key array when the pointer is
\* not NULL.
InitPerThread ==
    /\ MainAt("per_thread")
    /\ per_thread_inits' = [per_thread_inits EXCEPT ![idx] = @ + 1]
    /\ nls_log' = nls_log \cup PerThreadAccesses(conf.comp[idx])
    /\ IF hmac_sa_entry_array # NULL_PTR
       THEN /\ hmac_frees' = hmac_frees + 1
            /\ hmac_log' = hmac_log \cup {<<"free", hmac_sa_entry_array>>}
            /\ hmac_sa_entry_array' = PointerAfterFree
       ELSE UNCHANGED hmacvars
    /\ idx' = idx + 1
    /\ call' = [fn |-> "initialize_graph_per_thread"]
    /\ Goto(IF idx + 1 > NumComp THEN "loopstart" ELSE "per_thread")
    /\ UNCHANGED <<datavars, sizevars, runvars, logvars, benchvars,
                   nls_regions, bootvars, table_alloc, coprocessor_threads,
                   comp_ctx_to_init_offloadable, comp_ready, global_inits,
                   per_node_inits, todo_nodes, cur_node, io_alloc, io_filled,
                   comp_io, io_comp, ready_flag, workervars, barriers,
                   sigvars>>

\* Lines 783-788: release loopstart_barrier of the worker recorded for each
\* node of existing_nodes.
LoopStart ==
    /\ MainAt("loopstart")
    /\ barriers' =
           IF NumCoproc > 0
           THEN barriers \cup
                    {<<"loopstart", coprocessor_threads[n]>> : n \in ExistingNodes}
           ELSE barriers
    /\ call' = [fn |-> "proceed"]
    /\ Goto("io_alloc")
    /\ UNCHANGED <<datavars, execvars, bootvars, mainvars, workervars, sigvars>>

(* ------------------------ main(): I/O workers ------------------------- *)
\* Line 791: io_threads = new spawned_thread[num_io_threads].
AllocIo ==
    /\ MainAt("io_alloc")
    /\ io_alloc' = TRUE
    /\ idx' = 1
    /\ call' = [fn |-> "new"]
    /\ Goto("io_prep")
    /\ UNCHANGED <<datavars, execvars, bootvars, table_alloc, coprocessor_threads,
                   comp_ctx_to_init_offloadable, comp_ready, global_inits,
                   per_node_inits, per_thread_inits, todo_nodes, cur_node,
                   io_filled, comp_io, io_comp, ready_flag, workervars,
                   barriers, sigvars>>

\* Lines 842-929: the context of I/O worker idx; it is paired with the
\* computation context registered for its SW RX queue.
PrepareIo ==
    /\ MainAt("io_prep")
    /\ io_comp' = [io_comp EXCEPT ![idx] = conf.io[idx]]
    /\ comp_io' = [comp_io EXCEPT ![conf.io[idx]] = idx]
    /\ io_filled' = idx
    /\ idx' = idx + 1
    /\ call' = [fn |-> "rte_malloc_socket"]
    /\ Goto(IF idx + 1 > NumIo THEN "ready" ELSE "io_prep")
    /\ UNCHANGED <<datavars, execvars, bootvars, table_alloc, coprocessor_threads,
                   comp_ctx_to_init_offloadable, comp_ready, global_inits,
                   per_node_inits, per_thread_inits, todo_nodes, cur_node,
                   io_alloc, ready_flag, workervars, barriers, sigvars>>

\* Lines 932-936: ready_flag = true; ready_cond.signal_all().
NotifyReady ==
    /\ MainAt("ready")
    /\ ready_flag' = TRUE
    /\ call' = [fn |-> "signal_all"]
    /\ Goto("launch")
    /\ UNCHANGED <<datavars, execvars, bootvars, table_alloc, coprocessor_threads, idx,
                   comp_ctx_to_init_offloadable, comp_ready, global_inits,
                   per_node_inits, per_thread_inits, todo_nodes, cur_node,
                   io_alloc, io_filled, comp_io, io_comp, workervars, barriers,
                   sigvars>>

\* Line 947: rte_eal_mp_remote_launch(thread_wrapper, &col, CALL_MASTER):
\* every I/O worker is started, the first one on the main thread itself.
Launch ==
    /\ MainAt("launch")
    /\ iow' = [i \in Ios |-> "launched"]
    /\ call' = [fn |-> "rte_eal_mp_remote_launch"]
    /\ Goto("master_loop")
    /\ UNCHANGED <<datavars, execvars, compw, bootvars, mainvars, cw, loops,
                   offload_inits, barriers, sigvars>>

\* rte_eal_mp_remote_launch returns when the master's I/O loop has ended.
MasterReturn ==
    /\ MainAt("master_loop")
    /\ iow[1] = "exited"
    /\ call' = [fn |-> "lock"]
    /\ Goto("wait_exit")
    /\ UNCHANGED <<datavars, execvars, bootvars, mainvars, workervars, barriers,
                   sigvars>>

\* Lines 949-958: while (!_terminated) _exit_cond.wait(); return 0.
WaitExit ==
    /\ MainAt("wait_exit")
    /\ terminated
    /\ call' = [fn |-> "unlock"]
    /\ Exit(0)
    /\ UNCHANGED <<datavars, execvars, bootvars, mainvars, workervars, barriers,
                   sigvars>>

\* main() up to the launch of the I/O workers.
BringUp ==
    \/ CheckCollision
    \/ EalInit
    \/ ParseArgs
    \/ CountPorts
    \/ LoadConfig
    \/ NicSetup
    \/ CreateQueues
    \/ RegisterSignals
    \/ AllocCoprocTable
    \/ SpawnCoproc
    \/ WaitCoprocInit
    \/ PrepareComp
    \/ InitGlobal
    \/ InitPerNode
    \/ OffloadHandoff
    \/ OffloadWait
    \/ InitPerThread
    \/ LoopStart
    \/ AllocIo
    \/ PrepareIo
    \/ NotifyReady
    \/ Launch

MainNext ==
    \/ BringUp
    \/ MasterReturn
    \/ WaitExit

(* ------------------------------ workers ------------------------------- *)
Workers ==
    ({"io"} \X Ios) \cup ({"comp"} \X Comps) \cup ({"coproc"} \X Coprocs)

WorkerState(w) ==
    IF w[1] = "io" THEN iow[w[2]]
    ELSE IF w[1] = "comp" THEN compw[w[2]]
    ELSE cw[w[2]]

\* I/O worker 1 is the master: it runs on the main thread (CALL_MASTER), so it
\* stands still while handle_signal() runs there.
RunsBesideHandler(w) == proc = "running"
ThreadRuns(w) == proc = "running" /\ (w = <<"io", 1>> => hpc = "idle")

\* The worker is inside its event loop.
Running(w) == ThreadRuns(w) /\ WorkerState(w) = "running"

\* The packets worker w holds a reference to.
Held(w) == {p \in Packets : <<w, p>> \in held}

(* ------------------------ coprocessor worker -------------------------- *)
\* nba::coproc_loop, after the start-up diagram of main.cc (lines 500-514):
\* init event loop, init ComputeDevice and ComputeContexts, then report
\* through thread_init_done_barrier.
CoprocInit(i) ==
    /\ proc = "running"
    /\ cw[i] = "spawned"
    /\ cw' = [cw EXCEPT ![i] = "wait_offload"]
    /\ loops' = loops \cup {<<"coproc", i>>}
    /\ barriers' = barriers \cup {<<"thread_init_done", i>>}
    /\ UNCHANGED <<pc, proc, exit_code, call, bootvars, mainvars,
                   offload_inits, iow, compw, sigvars, datavars, execvars>>

\* offloadable_init_barrier->wait() returns: the worker starts the offload
\* init handlers of the elements of comp_ctx_to_init_offloadable on its device.
CoprocOffloadBegin(i) ==
    /\ proc = "running"
    /\ cw[i] = "wait_offload"
    /\ <<"offloadable_init", i>> \in barriers
    /\ cw' = [cw EXCEPT ![i] = "offload_init"]
    /\ offload_inits' = [offload_inits EXCEPT ![i] = @ + 1]
    /\ nls_log' = nls_log \cup
           OffloadInitAccesses(conf.comp[comp_ctx_to_init_offloadable[i]])
    /\ UNCHANGED <<pc, proc, exit_code, call, bootvars, mainvars, loops, iow,
                   compw, barriers, sigvars, datavars, sizevars, runvars,
                   logvars, benchvars, nls_regions, hmacvars>>

\* The handlers have returned: offloadable_init_done_barrier->proceed().
CoprocOffloadDone(i) ==
    /\ proc = "running"
    /\ cw[i] = "offload_init"
    /\ cw' = [cw EXCEPT ![i] = "wait_loopstart"]
    /\ barriers' = barriers \cup {<<"offloadable_init_done", i>>}
    /\ UNCHANGED <<pc, proc, exit_code, call, bootvars, mainvars, loops,
                   offload_inits, iow, compw, sigvars, datavars, execvars>>

\* loopstart_barrier->wait() returns: the worker enters its event loop.
CoprocStartLoop(i) ==
    /\ proc = "running"
    /\ cw[i] = "wait_loopstart"
    /\ <<"loopstart", i>> \in barriers
    /\ cw' = [cw EXCEPT ![i] = "running"]
    /\ UNCHANGED <<pc, proc, exit_code, call, bootvars, mainvars, loops,
                   offload_inits, iow, compw, barriers, sigvars, datavars, execvars>>

(* ------------------------- computation worker ------------------------- *)
\* The worker waits on ready_cond until ready_flag is set (the pointers main
\* stores at lines 655-656), then starts its event loop.
CompStart(j) ==
    /\ proc = "running"
    /\ compw[j] = "waiting"
    /\ ready_flag
    /\ compw' = [compw EXCEPT ![j] = "running"]
    /\ loops' = loops \cup {<<"comp", j>>}
    /\ UNCHANGED <<pc, proc, exit_code, call, bootvars, mainvars, cw,
                   offload_inits, iow, barriers, sigvars, datavars, execvars>>

(* ---------------------------- I/O worker ------------------------------ *)
\* nba::io_loop: init event loop, then start it.
IoInit(i) ==
    /\ ThreadRuns(<<"io", i>>)
    /\ iow[i] = "launched"
    /\ iow' = [iow EXCEPT ![i] = "running"]
    /\ loops' = loops \cup {<<"io", i>>}
    /\ UNCHANGED <<pc, proc, exit_code, call, bootvars, mainvars, cw,
                   offload_inits, compw, barriers, sigvars, datavars, execvars>>

(* ------------------------- leaving the loop --------------------------- *)
\* The terminate notifier of the worker's loop has fired (for an I/O worker
\* also ev_break): the worker gives up what it holds and leaves its loop.
WorkerExit(w) ==
    /\ Running(w)
    /\ w \in notified
    /\ Held(w) = {}
    /\ iow' = IF w[1] = "io" THEN [iow EXCEPT ![w[2]] = "exited"] ELSE iow
    /\ compw' = IF w[1] = "comp" THEN [compw EXCEPT ![w[2]] = "exited"] ELSE compw
    /\ cw' = IF w[1] = "coproc" THEN [cw EXCEPT ![w[2]] = "exited"] ELSE cw
    /\ UNCHANGED <<pc, proc, exit_code, call, bootvars, mainvars, loops,
                   offload_inits, barriers, sigvars, datavars, execvars>>

(* ------------------------- handle_signal() ---------------------------- *)
\* Every I/O and computation worker is in its event loop, and so is every
\* coprocessor worker that was let into it.
TrafficFlows ==
    /\ pc = "master_loop"
    /\ \A i \in Ios : iow[i] = "running"
    /\ \A j \in Comps : compw[j] = "running"
    /\ \A i \in Coprocs : <<"loopstart", i>> \in barriers => cw[i] = "running"

\* The environment sends signals at any moment, not only under traffic.
SignalsAnytime == env = "signals"

\* The threads a SIGINT or SIGTERM may be delivered to: the main thread, or
\* one of the threads main() has created.
MAIN_THREAD == "main"
OTHER_THREAD == "other"
SignalThreads ==
    IF env \in {"any", "signals"} THEN {MAIN_THREAD, OTHER_THREAD}
    ELSE {MAIN_THREAD}

\* handle_signal() taking every thread for the main thread.
OnAnyThread(thread) == TRUE

\* Line 964: threading::is_thread_equal(main_thread_id, threading::self()).
OnMainThread(thread) == thread = MAIN_THREAD

\* SIGINT or SIGTERM is delivered: handle_signal() runs on the thread, and
\* does nothing on a thread that is not the main thread.
Signal(thread) ==
    /\ proc = "running"
    /\ handlers
    /\ hpc = "idle"
    /\ SignalsAnytime \/ TrafficFlows
    /\ sig_threads' = sig_threads \cup {thread}
    /\ hpc' = IF OnMainThread(thread) THEN "coproc" ELSE hpc
    /\ UNCHANGED <<pc, proc, exit_code, call, bootvars, mainvars, workervars,
                   barriers, notified, terminated, datavars, execvars>>

\* ev_async_send(ctx->loop, ...) on the contexts of the workers in targets:
\* a loop pointer its worker has not set yet is whatever the allocation
\* held, so the call may fault or pass without effect.
WildOutcomes(targets, kind) ==
    IF \E t \in targets : <<kind, t>> \notin loops
    THEN {"crash", "no_effect"}
    ELSE {"sent"}

\* The workers the first loop of handle_signal() sends to: the coproc_ctx of
\* every entry of the node-indexed table that is not nullptr.
CoprocTargets ==
    {coprocessor_threads[n] : n \in NodeIds(conf.num_nodes)} \ {0}

\* Lines 967-972.  coprocessor_threads is a null pointer until line 524.
HandlerCoproc ==
    /\ proc = "running"
    /\ hpc = "coproc"
    /\ IF ~table_alloc
       THEN Crash /\ UNCHANGED <<notified, hpc>>
       ELSE \E wild \in WildOutcomes(CoprocTargets, "coproc") :
                IF wild = "crash"
                THEN Crash /\ UNCHANGED <<notified, hpc>>
                ELSE /\ notified' = notified \cup
                            {<<"coproc", t>> : t \in {u \in CoprocTargets :
                                                    <<"coproc", u>> \in loops}}
                     /\ hpc' = "io"
                     /\ UNCHANGED <<pc, proc, exit_code>>
    /\ UNCHANGED <<call, bootvars, mainvars, workervars, barriers, terminated,
                   sig_threads, datavars, execvars>>

\* The entries of io_threads the second loop can use: filled in, with the
\* loop of the worker set.
IoUsable == {i \in Ios : i <= io_filled /\ <<"io", i>> \in loops}

\* What the second loop of handle_signal() can come to.  The entries of
\* io_threads are uninitialised until main fills them in (lines 842-929).
IoOutcomes ==
    WildOutcomes({i \in Ios : i <= io_filled}, "io")
        \cup (IF io_filled < NumIo THEN {"crash"} ELSE {})

\* Lines 973-977.  io_threads is a null pointer until line 791.
HandlerIo ==
    /\ proc = "running"
    /\ hpc = "io"
    /\ IF NumIo > 0 /\ ~io_alloc
       THEN Crash /\ UNCHANGED <<notified, hpc>>
       ELSE \E wild \in IoOutcomes :
                IF wild = "crash"
                THEN Crash /\ UNCHANGED <<notified, hpc>>
                ELSE /\ notified' = notified \cup {<<"io", i>> : i \in IoUsable}
                     /\ hpc' = "wait_lcore"
                     /\ UNCHANGED <<pc, proc, exit_code>>
    /\ UNCHANGED <<call, bootvars, mainvars, workervars, barriers, terminated,
                   sig_threads, datavars, execvars>>

\* rte_eal_mp_wait_lcore() returns: no slave lcore is running an I/O worker.
LcoresDone == \A i \in Ios \ {1} : iow[i] \notin {"launched", "running"}

\* Lines 978-984: wait for the lcores, then set _terminated and signal.
HandlerFinish ==
    /\ proc = "running"
    /\ hpc = "wait_lcore"
    /\ LcoresDone
    /\ terminated' = TRUE
    /\ hpc' = "idle"
    /\ UNCHANGED <<pc, proc, exit_code, call, bootvars, mainvars, workervars,
                   barriers, notified, sig_threads, datavars, execvars>>

SignalNext ==
    \/ \E thread \in SignalThreads : Signal(thread)
    \/ HandlerCoproc
    \/ HandlerIo
    \/ HandlerFinish

Next ==
    \/ MainNext
    \/ \E i \in Coprocs : CoprocInit(i)
    \/ \E i \in Coprocs : CoprocOffloadBegin(i)
    \/ \E i \in Coprocs : CoprocOffloadDone(i)
    \/ \E i \in Coprocs : CoprocStartLoop(i)
    \/ \E j \in Comps : CompStart(j)
    \/ \E i \in Ios : IoInit(i)
    \/ \E w \in Workers : WorkerExit(w)
    \/ SignalNext

Spec == Init /\ [][Next]_vars

\* A valid command line on a fault-free machine, with signals at any moment
\* after the handlers are registered.
SignalInit == env = "signals" /\ Start

SignalSpec == SignalInit /\ [][Next]_vars

(* ----------------------------- data plane ----------------------------- *)
\* The rings the loaded configuration wires.
WiredRings ==
    ({"rx", "done"} \X Comps) \cup ({"tx", "drop"} \X Ios)
        \cup ({"task"} \X Coprocs)

\* The coprocessor worker a computation worker submits its tasks to
\* (0 = none): the one recorded for its node.
CompCoproc(j) == IF NumCoproc > 0 THEN coprocessor_threads[conf.comp[j]] ELSE 0

\* The workers that enqueue into ring r.
Producers(r) ==
    IF r[1] = "rx" THEN {<<"io", i>> : i \in {k \in Ios : io_comp[k] = r[2]}}
    ELSE IF r[1] \in {"tx", "drop"} THEN {<<"comp", io_comp[r[2]]>>}
    ELSE IF r[1] = "task"
         THEN {<<"comp", j>> : j \in {k \in Comps : CompCoproc(k) = r[2]}}
    ELSE {<<"coproc", CompCoproc(r[2])>>} \ {<<"coproc", 0>>}

\* The worker that dequeues from ring r.
Consumer(r) ==
    IF r[1] \in {"rx", "done"} THEN <<"comp", r[2]>>
    ELSE IF r[1] \in {"tx", "drop"} THEN <<"io", r[2]>>
    ELSE <<"coproc", r[2]>>

\* I/O worker i polls its RX queue: a packet is created from the pool.
Receive(i) ==
    /\ Running(<<"io", i>>)
    /\ <<"io", i>> \notin notified
    /\ pool # <<>>
    /\ pool' = Tail(pool)
    /\ held' = held \cup {<<<<"io", i>>, Head(pool)>>}
    /\ UNCHANGED <<execvars, pc, proc, exit_code, call, bootvars, mainvars, workervars,
                   barriers, sigvars, rings>>

\* A hand-off after which the producer still holds its pointer.
KeepReference(refs, w, p) == refs

\* The references left once worker w has enqueued packet p: the pointer is
\* transferred, the producer keeps none.
AfterHandoff(refs, w, p) == refs \ {<<w, p>>}

\* Worker w enqueues packet p into ring r: the I/O worker into the RX ring,
\* the computation worker into a TX, drop or task ring, the coprocessor
\* worker into the completion ring.
Push(w, r, p) ==
    /\ Running(w)
    /\ r \in WiredRings
    /\ w \in Producers(r)
    /\ <<w, p>> \in held
    /\ rings' = [rings EXCEPT ![r] = Append(@, p)]
    /\ held' = AfterHandoff(held, w, p)
    /\ nls_log' = IF w[1] = "comp"
                  THEN nls_log \cup ProcessAccesses(conf.comp[w[2]])
                  ELSE nls_log
    /\ UNCHANGED <<sizevars, runvars, logvars, benchvars, nls_regions, hmacvars, pc, proc, exit_code, call, bootvars, mainvars, workervars,
                   barriers, sigvars, pool>>

\* The consumer of an RX, task or completion ring dequeues its oldest packet.
Pop(r) ==
    /\ r \in WiredRings
    /\ r[1] \in {"rx", "task", "done"}
    /\ Running(Consumer(r))
    /\ rings[r] # <<>>
    /\ rings' = [rings EXCEPT ![r] = Tail(@)]
    /\ held' = held \cup {<<Consumer(r), Head(rings[r])>>}
    /\ UNCHANGED <<execvars, pc, proc, exit_code, call, bootvars, mainvars, workervars,
                   barriers, sigvars, pool>>

\* The I/O worker drains a TX ring (transmit) or the drop ring: the packet
\* is released to the pool.
Release(r) ==
    /\ r \in WiredRings
    /\ r[1] \in {"tx", "drop"}
    /\ Running(Consumer(r))
    /\ rings[r] # <<>>
    /\ rings' = [rings EXCEPT ![r] = Tail(@)]
    /\ pool' = Append(pool, Head(rings[r]))
    /\ UNCHANGED <<execvars, pc, proc, exit_code, call, bootvars, mainvars, workervars,
                   barriers, sigvars, held>>

DataInit == env = "nominal" /\ Start

DataNext ==
    \/ Next
    \/ \E i \in Ios : Receive(i)
    \/ \E w \in Workers, r \in RingIds, p \in Packets : Push(w, r, p)
    \/ \E r \in RingIds : Pop(r)
    \/ \E r \in RingIds : Release(r)

DataSpec == DataInit /\ [][DataNext]_vars

(* ----------------------- element graph executor ----------------------- *)
\* The executor of computation worker 1 with the workers wired to it: I/O
\* worker 1 and coprocessor worker 1.  Packets travel in batches: the RX
\* ring carries batches, the task input and completion rings carry tasks,
\* the TX and drop rings carry packets.  A batch is the sequence of its
\* live packets in slot order; an entry of the work stack or of the retry
\* deque is [elem, batch, tries].
IOW == <<"io", 1>>
COMPW == <<"comp", 1>>
COPROCW == <<"coproc", 1>>
RXQ == <<"rx", 1>>
TASKINQ == <<"task", 1>>
TASKOUTQ == <<"done", 1>>
TXQ == <<"tx", 1>>
DROPQ == <<"drop", 1>>

\* Worker w exists and is inside its event loop.
InLoop(w) == w \in Workers /\ Running(w)

\* What no step of the data plane changes.
bringupvars ==
    <<pc, proc, exit_code, call, bootvars, mainvars, workervars, barriers,
      sigvars, held, graph, unitvars>>

\* Line 466, rte_ring_create(ring_name, queue_length, ...): a ring created
\* with count slots holds at most count - 1 objects.
RingCapacity(count) == count - 1

\* Discard::process (part_000, lines 18-21).
KeepsPacket(input_port, pkt) == <<"CONTINUE", 0>>
DiscardProcess(input_port, pkt) == DROP

\* IPsecAuthHMACSHA1::postproc (part_002, lines 235-239): output(0).push(pkt).
Postproc(input_port, custom_output, pkt) == CONTINUE(0)

\* What process() of plain element e may return for a packet: Discard as
\* its code says, the classifier any action of the element contract.
ProcessResults(g, e, pkt) ==
    IF e = "Discard" THEN {DiscardProcess(0, pkt)}
    ELSE {DROP} \cup {CONTINUE(k) : k \in OutPorts(g, e)}

\* The packets of batch b whose result under f is r, in slot order.
Pick(b, f, r) ==
    LET at == SelectSeq([i \in 1 .. Len(b) |-> i], LAMBDA i : f[i] = r)
    IN  [k \in 1 .. Len(at) |-> b[at[k]]]

\* The packets of batch b that process() dropped under f: they are
\* collected for the drop ring.
NotCollected(b, f) == <<>>
Collected(b, f) == Pick(b, f, DROP)

\* A sub-batch is pushed on only when it has a live packet.
AlsoEmpty(b) == TRUE
Forwardable(b) == b # <<>>

\* The sub-batches element e makes of batch b under the results f, by out
\* port, each bound for the element its port leads to.
SubBatches(e, b, f) ==
    LET ports == SelectSeq(<<0, 1>>,
                           LAMBDA k : /\ k \in OutPorts(graph, e)
                                      /\ Forwardable(Pick(b, f, CONTINUE(k))))
    IN  [i \in 1 .. Len(ports) |->
            [elem |-> Downstream(graph, e, ports[i]),
             batch |-> Pick(b, f, CONTINUE(ports[i])), tries |-> 0]]

Top == stack[Len(stack)]
Rest == SubSeq(stack, 1, Len(stack) - 1)

\* One turn of the I/O worker's loop body.  It polls its RX queue: a burst
\* of n packets (n = 0: nothing has arrived) is taken from the packet pool
\* and assembled into a batch for the RX ring; without a free batch the
\* packets are dropped on the spot.  It drains the TX ring and transmits,
\* then drains the drop ring, releasing the packets to the pool.
IoLoop(n) ==
    /\ TrafficFlows
    /\ n <= MaxRx - Len(rx_order)
    /\ LET burst == SubSeq(pool, 1, n)
           left == SubSeq(pool, n + 1, Len(pool))
           batched == n > 0 /\ batch_free > 0
       IN  /\ rx_order' = rx_order \o burst
           /\ batch_free' = IF batched THEN batch_free - 1 ELSE batch_free
           /\ sent' = sent \o rings[TXQ]
           /\ pool' = left \o (IF batched THEN <<>> ELSE burst)
                        \o rings[TXQ] \o rings[DROPQ]
           /\ rings' = [rings EXCEPT
                          ![RXQ] = IF batched THEN Append(@, burst) ELSE @,
                          ![TXQ] = <<>>,
                          ![DROPQ] = <<>>]
    /\ UNCHANGED <<bringupvars, task_free, ctx_free, runvars, seen,
                   post_order>>

\* Wakeup from the RX ring: the oldest batch goes on the work stack, bound
\* for the root element.
RxWakeup ==
    /\ InLoop(COMPW)
    /\ stack = <<>>
    /\ rings[RXQ] # <<>>
    /\ stack' = <<[elem |-> graph.root, batch |-> Head(rings[RXQ]),
                   tries |-> 0]>>
    /\ rings' = [rings EXCEPT ![RXQ] = Tail(@)]
    /\ UNCHANGED <<bringupvars, pool, batch_free, task_free, ctx_free, retry,
                   starve, ntask, dev, completed, logvars>>

\* Wakeup with a batch waiting in the retry deque: the oldest is tried again.
RetryWakeup ==
    /\ InLoop(COMPW)
    /\ stack = <<>>
    /\ retry # <<>>
    /\ stack' = <<Head(retry)>>
    /\ retry' = Tail(retry)
    /\ UNCHANGED <<bringupvars, pool, rings, batch_free, task_free, ctx_free,
                   starve, ntask, dev, completed, logvars>>

\* The batch on top of the stack cannot go on now.  It is put on the retry
\* deque; once it has used up its retries, or when the deque already holds
\* TASKPOOL_SIZE batches, it is dropped: its packets go to the drop ring.
NeverGivesUp(entry) == TRUE
DropAtOnce(entry) == FALSE
MayRequeue(entry) == entry.tries < MaxRetries /\ Len(retry) < TASKPOOL_SIZE

Requeue(entry) ==
    /\ stack' = Rest
    /\ IF MayRequeue(entry)
       THEN /\ retry' = Append(retry, [entry EXCEPT !.tries = @ + 1])
            /\ UNCHANGED <<rings, batch_free>>
       ELSE /\ rings' = [rings EXCEPT ![DROPQ] = @ \o entry.batch]
            /\ batch_free' = batch_free + 1
            /\ retry' = retry

\* The executor pops a batch bound for a plain element: process() runs for
\* each packet in slot order, the packets are grouped by out port, dropped
\* packets are collected for the drop ring.  The last sub-batch reuses the
\* storage of its parent, every other one takes a fresh batch; when the
\* batch pool has too few the batch waits in the retry deque instead.
ProcessBatch ==
    /\ InLoop(COMPW)
    /\ stack # <<>>
    /\ Top.elem \in {"Discard", "Classifier"}
    /\ \E f \in [1 .. Len(Top.batch) ->
                    UNION {ProcessResults(graph, Top.elem, p) :
                             p \in 1 .. MaxRx}] :
        /\ \A i \in 1 .. Len(Top.batch) :
              f[i] \in ProcessResults(graph, Top.elem, Top.batch[i])
        /\ LET subs == SubBatches(Top.elem, Top.batch, f)
           IN  IF Len(subs) - 1 > batch_free
               THEN /\ Requeue(Top)
                    /\ seen' = seen
               ELSE /\ stack' = Rest \o subs
                    /\ batch_free' = batch_free + 1 - Len(subs)
                    /\ rings' = [rings EXCEPT
                                   ![DROPQ] = @ \o Collected(Top.batch, f)]
                    /\ seen' = [seen EXCEPT ![Top.elem] = @ \o Top.batch]
                    /\ retry' = retry
    /\ UNCHANGED <<bringupvars, pool, task_free, ctx_free, starve, ntask, dev,
                   completed, rx_order, post_order, sent>>

\* The executor pops a batch bound for the sink: its packets go to the TX
\* ring and the batch retires.
Output ==
    /\ InLoop(COMPW)
    /\ stack # <<>>
    /\ Top.elem = "ToOutput"
    /\ stack' = Rest
    /\ rings' = [rings EXCEPT ![TXQ] = @ \o Top.batch]
    /\ batch_free' = batch_free + 1
    /\ seen' = [seen EXCEPT !["ToOutput"] = @ \o Top.batch]
    /\ UNCHANGED <<bringupvars, pool, task_free, ctx_free, retry, starve,
                   ntask, dev, completed, rx_order, post_order, sent>>

\* The offloads outstanding: tasks submitted and not yet post-processed.
Outstanding ==
    Len(rings[TASKINQ]) + Cardinality(dev) + Len(rings[TASKOUTQ])
        + Cardinality(completed)

\* A task can be submitted: the task pool has a task, the outstanding
\* offloads are below the cap, a compute context is available and the task
\* input ring has room.
CanSubmit ==
    /\ task_free > 0
    /\ Outstanding < NumCoprocPpdepth
    /\ starve # "held" /\ ctx_free > 0
    /\ Len(rings[TASKINQ]) < RingCapacity(COPROC_INPUTQ_LENGTH)

\* What stays on the work stack when the batch on top becomes a task.
StaysOnStack == stack
LeavesStack == Rest

\* The executor pops a batch bound for an offloadable element: the batch is
\* attached to a new task, which goes into the task input ring; the batch
\* is pending and leaves the stack.  Failing that, the batch is requeued.
Offload ==
    /\ InLoop(COMPW)
    /\ stack # <<>>
    /\ Offloadable(Top.elem)
    /\ IF CanSubmit
       THEN /\ ntask' = ntask + 1
            /\ task_free' = task_free - 1
            /\ ctx_free' = ctx_free - 1
            /\ rings' = [rings EXCEPT
                           ![TASKINQ] = Append(@, [id |-> ntask + 1,
                                                   elem |-> Top.elem,
                                                   batch |-> Top.batch,
                                                   status |-> "submitted"])]
            /\ stack' = LeavesStack
            /\ seen' = [seen EXCEPT ![Top.elem] = @ \o Top.batch]
            /\ UNCHANGED <<retry, batch_free>>
       ELSE /\ Requeue(Top)
            /\ UNCHANGED <<ntask, task_free, ctx_free, seen>>
    /\ UNCHANGED <<bringupvars, pool, starve, dev, completed, rx_order,
                   post_order, sent>>

\* The coprocessor worker takes the oldest task off its input ring and
\* launches it on the device.
CoprocTake ==
    /\ InLoop(COPROCW)
    /\ rings[TASKINQ] # <<>>
    /\ dev' = dev \cup {Head(rings[TASKINQ])}
    /\ rings' = [rings EXCEPT ![TASKINQ] = Tail(@)]
    /\ UNCHANGED <<bringupvars, pool, sizevars, stack, retry, starve, ntask,
                   completed, logvars>>

\* The device finishes a task, with or without error, in whatever order;
\* the coprocessor worker puts it on the completion ring.
DeviceFinish(t, status) ==
    /\ InLoop(COPROCW)
    /\ t \in dev
    /\ Len(rings[TASKOUTQ]) < RingCapacity(COPROC_COMPLETIONQ_LENGTH)
    /\ dev' = dev \ {t}
    /\ rings' = [rings EXCEPT
                   ![TASKOUTQ] = Append(@, [t EXCEPT !.status = status])]
    /\ UNCHANGED <<bringupvars, pool, sizevars, stack, retry, starve, ntask,
                   completed, logvars>>

\* With the stack drained the executor drains the completion ring.
TakeCompletion ==
    /\ InLoop(COMPW)
    /\ stack = <<>>
    /\ rings[TASKOUTQ] # <<>>
    /\ completed' = completed \cup {Head(rings[TASKOUTQ])}
    /\ rings' = [rings EXCEPT ![TASKOUTQ] = Tail(@)]
    /\ UNCHANGED <<bringupvars, pool, sizevars, stack, retry, starve, ntask,
                   dev, logvars>>

\* The ids of the tasks postproc has observed, and the oldest task
\* submitted that it has not.
Observed == {post_order[k][1] : k \in 1 .. Len(post_order)}
OldestPending ==
    CHOOSE n \in (1 .. ntask) \ Observed :
        \A m \in (1 .. ntask) \ Observed : n <= m

\* The executor may take completed task t next: with preserve_latency only
\* the oldest task submitted, without it any completed task.
AnyCompleted(t) == TRUE
NextForPostproc(t) == CtxPreserveLatency(1) => t.id = OldestPending

\* The completed tasks left once postproc has run for task t: the task is
\* freed.
StaysCompleted(t) == completed
AfterPostproc(t) == completed \ {t}

\* The device output postproc is given: none when the task failed.
NULL == "NULL"
DeviceOutput(t) == IF t.status = "error" THEN NULL ELSE "output"

\* The packets of the batch of task t that stay live: none after a device
\* error, which marks every packet killed, and else those postproc sends on.
TrustsBatch(t) == t.batch
LiveAfter(t) ==
    IF t.status = "error" THEN <<>>
    ELSE Pick(t.batch,
              [i \in 1 .. Len(t.batch) |->
                  Postproc(0, DeviceOutput(t), t.batch[i])],
              CONTINUE(0))

\* postproc runs for every packet of a completed task in slot order; the
\* task and its context are freed, killed packets go to the drop ring and
\* the batch resumes from the out port of its element, or retires when no
\* packet is left.
PostProc(t) ==
    /\ InLoop(COMPW)
    /\ stack = <<>>
    /\ t \in completed
    /\ NextForPostproc(t)
    /\ completed' = AfterPostproc(t)
    /\ post_order' = Append(post_order, <<t.id, DeviceOutput(t)>>)
    /\ task_free' = task_free + 1
    /\ ctx_free' = ctx_free + 1
    /\ LET live == LiveAfter(t)
           killed == SelectSeq(t.batch,
                               LAMBDA p : \A k \in 1 .. Len(live) : live[k] # p)
       IN  /\ rings' = [rings EXCEPT ![DROPQ] = @ \o killed]
           /\ IF Forwardable(live)
              THEN /\ stack' = <<[elem |-> Downstream(graph, t.elem, 0),
                                  batch |-> live, tries |-> 0]>>
                   /\ batch_free' = batch_free
              ELSE /\ stack' = stack
                   /\ batch_free' = batch_free + 1
    /\ UNCHANGED <<bringupvars, pool, retry, starve, ntask, dev, rx_order,
                   seen, sent>>

\* The device's contexts are withheld from the computation worker, from
\* before the first packet arrives until the device resumes:
\* get_available_context() finds none.
Starve ==
    /\ TrafficFlows
    /\ starve = "no"
    /\ rx_order = <<>>
    /\ starve' = "held"
    /\ UNCHANGED <<bringupvars, datavars, sizevars, stack, retry, ntask, dev,
                   completed, logvars>>

Resume ==
    /\ starve = "held"
    /\ starve' = "resumed"
    /\ UNCHANGED <<bringupvars, datavars, sizevars, stack, retry, ntask, dev,
                   completed, logvars>>

ExecInit == env = "exec" /\ Start

ExecNext ==
    \/ BringUp
    \/ \E i \in Coprocs : CoprocInit(i)
    \/ \E i \in Coprocs : CoprocOffloadBegin(i)
    \/ \E i \in Coprocs : CoprocOffloadDone(i)
    \/ \E i \in Coprocs : CoprocStartLoop(i)
    \/ \E j \in Comps : CompStart(j)
    \/ \E i \in Ios : IoInit(i)
    \/ \E n \in 0 .. COMP_BATCH_SIZE : IoLoop(n)
    \/ RxWakeup
    \/ RetryWakeup
    \/ ProcessBatch
    \/ Output
    \/ Offload
    \/ CoprocTake
    \/ \E t \in dev, status \in {"ok", "error"} : DeviceFinish(t, status)
    \/ TakeCompletion
    \/ \E t \in completed : PostProc(t)
    \/ Starve
    \/ Resume

ExecSpec == ExecInit /\ [][ExecNext]_vars

\* The executor with the cap on outstanding offloads below the task pool
\* size, on the pipeline with the offloadable element.
DepthInit == env = "depth" /\ Start

DepthNext ==
    \/ BringUp
    \/ \E i \in Coprocs : CoprocInit(i)
    \/ \E i \in Coprocs : CoprocOffloadBegin(i)
    \/ \E i \in Coprocs : CoprocOffloadDone(i)
    \/ \E i \in Coprocs : CoprocStartLoop(i)
    \/ \E j \in Comps : CompStart(j)
    \/ \E i \in Ios : IoInit(i)
    \/ \E n \in 0 .. COMP_BATCH_SIZE : IoLoop(n)
    \/ RxWakeup
    \/ RetryWakeup
    \/ ProcessBatch
    \/ Output
    \/ Offload
    \/ CoprocTake
    \/ \E t \in dev, status \in {"ok", "error"} : DeviceFinish(t, status)
    \/ TakeCompletion
    \/ \E t \in completed : PostProc(t)

DepthSpec == DepthInit /\ [][DepthNext]_vars

(* ------------------------- phases of start-up ------------------------- *)
ConfigLoaded == conf # NoConf

NoWorkerSpawned ==
    /\ \A i \in Coprocs : cw[i] = "unspawned"
    /\ \A j \in Comps : compw[j] = "waiting"
    /\ \A i \in Ios : iow[i] = "unlaunched"
    /\ loops = {}

CoprocSpawnBegun == \E i \in Coprocs : cw[i] # "unspawned"

\* Every coprocessor worker is spawned and has reported its device ready.
CoprocSpawnDone ==
    \A i \in Coprocs : cw[i] # "unspawned" /\ <<"thread_init_done", i>> \in barriers

PerNodeBegun == \E n \in NodeIds(conf.num_nodes) : per_node_inits[n] > 0

PerNodeDone == \A n \in ExistingNodes : per_node_inits[n] > 0

OffloadBegun == \E i \in Coprocs : offload_inits[i] > 0

\* The offload init of node n has run to its end on a coprocessor worker.
OffloadDoneOn(n) ==
    \E i \in Coprocs :
        /\ CoprocNode(i) = n
        /\ offload_inits[i] > 0
        /\ cw[i] # "offload_init"

OffloadDone == NumCoproc > 0 => \A n \in ExistingNodes : OffloadDoneOn(n)

PerThreadBegun == \E j \in Comps : per_thread_inits[j] > 0

PerThreadDone == \A j \in Comps : per_thread_inits[j] > 0

IoLaunched == \E i \in Ios : iow[i] # "unlaunched"

TrafficBegun == \E i \in Ios : iow[i] \in {"running", "exited"}

\* The order of the phases around the four init phases.
OuterOrder ==
    /\ nic_ready => ConfigLoaded
    /\ queues_ready => nic_ready
    /\ CoprocSpawnBegun => queues_ready
    /\ global_inits > 0 => queues_ready /\ CoprocSpawnDone
    /\ PerNodeBegun => global_inits > 0
    /\ IoLaunched => ready_flag
    /\ pc = "master_loop" => \A i \in Ios : iow[i] # "unlaunched"
    /\ TrafficBegun => \A i \in Ios : iow[i] # "unlaunched"

(* ------------------------------- claims ------------------------------- *)
\* C1, as amended: the phases of start-up happen in the order config load,
\* NIC queue setup, SW rings, coprocessor workers spawned with device init
\* done, global init, per-node init, offload-element init, per-thread init,
\* computation workers released, I/O workers launched, master I/O loop,
\* traffic; no phase begins before the one before it is complete.
StartupOrderAmended ==
    /\ OuterOrder
    /\ OffloadBegun => PerNodeDone
    /\ PerThreadBegun => PerNodeDone /\ OffloadDone
    /\ ready_flag => ConfigLoaded /\ PerThreadDone

\* C1, as stated: the same order but with per-thread init complete before
\* offload-element init starts on any coprocessor worker.
StartupOrderAsStated ==
    /\ OuterOrder
    /\ PerThreadBegun => PerNodeDone
    /\ OffloadBegun => PerThreadDone
    /\ ready_flag => ConfigLoaded /\ PerThreadDone /\ OffloadDone

\* C1: traffic flows on a machine with coprocessor workers and two
\* computation workers, after offload init has run.
StartupOrderWitness ==
    /\ pc = "master_loop"
    /\ \A i \in Ios : iow[i] = "running"
    /\ NumComp = 2
    /\ OffloadBegun

\* C2: whenever an I/O worker loop has been launched, global init, per-node
\* init of every node hosting a computation worker, offload init and
\* per-thread init of every computation worker have completed.
InitBeforeTraffic ==
    IoLaunched =>
        /\ global_inits = 1
        /\ PerNodeDone
        /\ OffloadDone
        /\ PerThreadDone

\* C2: I/O workers run on two nodes with coprocessor workers.
InitBeforeTrafficWitness ==
    /\ \E i \in Ios : iow[i] = "running"
    /\ NumCoproc > 0
    /\ Cardinality(ExistingNodes) = 2

\* C3: global init never runs twice, per-node init never twice on a node
\* and per-thread init never twice on a worker; by the time workers are
\* launched global init has run once, per-node init once on each node that
\* hosts a computation worker and on no other, per-thread init once per
\* computation worker.
InitCounts ==
    /\ global_inits <= 1
    /\ \A n \in NodeIds(conf.num_nodes) : per_node_inits[n] <= 1
    /\ \A j \in Comps : per_thread_inits[j] <= 1
    /\ IoLaunched =>
        /\ global_inits = 1
        /\ \A n \in NodeIds(conf.num_nodes) :
              per_node_inits[n] = IF n \in ExistingNodes THEN 1 ELSE 0
        /\ \A j \in Comps : per_thread_inits[j] = 1

\* C3: workers are launched where two computation workers share a node and
\* another node hosts none.
InitCountsWitness ==
    /\ IoLaunched
    /\ \E j, k \in Comps : j # k /\ conf.comp[j] = conf.comp[k]
    /\ NodeIds(conf.num_nodes) \ ExistingNodes # {}

\* C4: offload init runs at most once on each coprocessor worker; whenever a
\* coprocessor worker is configured main's hand-off finds a worker on every
\* node hosting computation workers, and main does not go on to per-thread
\* init until offload init has run to its end on each of these nodes and on
\* the device of every coprocessor worker there.
OffloadInitAsStated ==
    /\ \A i \in Coprocs : offload_inits[i] <= 1
    /\ ~(pc = "offload" /\ proc = "crashed")
    /\ (PerThreadBegun /\ NumCoproc > 0) =>
          \A i \in Coprocs :
              CoprocNode(i) \in ExistingNodes =>
                  offload_inits[i] = 1 /\ cw[i] # "offload_init"

\* The contexts holding a terminate watcher main() has created.
WorkersWithWatcher ==
    ({"io"} \X {i \in Ios : iow[i] # "unlaunched"})
        \cup ({"comp"} \X (IF comp_ready THEN Comps ELSE {}))
        \cup ({"coproc"} \X {i \in Coprocs : cw[i] # "unspawned"})

\* C5: once handle_signal() has gone through its notification loops, the
\* terminate notifier of every I/O worker, every computation worker and
\* every spawned coprocessor worker has been fired.
EveryWorkerNotified ==
    hpc = "wait_lcore" => \A w \in WorkersWithWatcher : w \in notified

\* C6: when the process has exited with status 0 after a signal under
\* traffic, every worker has left its loop, the packet pool is full and the
\* terminated flag is set.
GracefulExit ==
    (proc = "exited" /\ exit_code = 0) =>
        /\ terminated
        /\ \A w \in Workers : WorkerState(w) = "exited"
        /\ Len(pool) = MaxPkts

NothingInitialised ==
    /\ ~eal_ready
    /\ ~ConfigLoaded
    /\ ~nic_ready
    /\ ~queues_ready
    /\ ~table_alloc
    /\ ~io_alloc
    /\ NoWorkerSpawned

\* C7: when the process lock cannot be acquired the program exits with
\* status 1 having initialised nothing, nothing is initialised before the
\* lock is held, and check_collision is asked for the temp-directory
\* placement exactly when the user is not root.
LockBusyExit ==
    /\ lock_state = "busy" =>
          proc = "exited" /\ exit_code = 1 /\ NothingInitialised
    /\ lock_state = "untried" => NothingInitialised
    /\ call.fn = "check_collision" =>
          ((COLLISION_USE_TEMP \in call.flags) <=> ~call.root)

\* C7: a non-root user finds the lock taken.
LockBusyWitness ==
    /\ lock_state = "busy"
    /\ call.fn = "check_collision"
    /\ ~call.root

\* C8: main() goes past argument parsing only with exactly two positional
\* arguments, and whenever the process has ended with a non-zero status no
\* coprocessor, computation or I/O worker has been spawned.
FatalConfigErrors ==
    /\ pc = "ports" => call.npos = 2
    /\ (proc = "exited" /\ exit_code # 0) => NoWorkerSpawned

\* C9: each documented level name selects its level, any other value ends
\* the process with a failure status, and without the option the level is
\* info.
LogLevelNames ==
    call.fn \in {"rte_set_log_level", "rte_exit"} =>
        /\ call.optarg \in DocumentedLevels => call.level = LevelOf(call.optarg)
        /\ call.optarg = NoOption => call.level = "RTE_LOG_INFO"
        /\ call.optarg \notin DocumentedLevels \cup {NoOption} =>
              proc = "exited" /\ exit_code # 0

\* The workers holding a reference to packet p.
Owners(p) == {w \in Workers : <<w, p>> \in held}

\* Packet p is queued in ring r.
InRing(q, r, p) == \E k \in 1 .. Len(q[r]) : q[r][k] = p

\* A step by which a worker gains or gives up a reference is a ring
\* hand-off: a reference is gained by dequeuing from the worker's own ring
\* (by an I/O worker also by receiving into a pool packet), and given up
\* by enqueuing into a ring the worker produces for.
ByHandoff ==
    \A p \in Packets : \A w \in Workers :
        /\ (<<w, p>> \notin held /\ <<w, p>> \in held') =>
              \/ w[1] = "io" /\ pool # <<>> /\ Head(pool) = p
              \/ \E r \in WiredRings :
                    Consumer(r) = w /\ rings[r] # <<>> /\ Head(rings[r]) = p
        /\ (<<w, p>> \in held /\ <<w, p>> \notin held') =>
              \E r \in WiredRings :
                  w \in Producers(r) /\ ~InRing(rings, r, p) /\ InRing(rings', r, p)

\* C10: in every reachable state each packet is referenced by at most one
\* worker, by none while it is in the pool or in a ring, and references
\* move only by ring hand-off.
ExclusiveOwnership ==
    /\ [](\A p \in Packets :
            /\ Cardinality(Owners(p)) <= 1
            /\ (\E k \in 1 .. Len(pool) : pool[k] = p) => Owners(p) = {}
            /\ (\E r \in RingIds : InRing(rings, r, p)) => Owners(p) = {})
    /\ [][ByHandoff]_vars

\* C10: one packet is with the computation worker while another is with a
\* coprocessor worker.
ExclusiveOwnershipWitness ==
    \E p, q \in Packets :
        /\ p # q
        /\ <<<<"comp", 1>>, p>> \in held
        /\ \E i \in Coprocs : <<<<"coproc", i>>, q>> \in held

(* ------------------------- packets and places ------------------------- *)
\* The tasks that are live: submitted, and postproc has not run for them.
TasksIn(q) == {q[k] : k \in 1 .. Len(q)}
LiveTasks == TasksIn(rings[TASKINQ]) \cup dev \cup TasksIn(rings[TASKOUTQ])
                \cup completed

\* The batches in use: in the RX ring, on the work stack, in the retry
\* deque, or pending with a live task.
BatchesInUse ==
    Len(rings[RXQ]) + Len(stack) + Len(retry) + Cardinality(LiveTasks)

\* Where packet p is: in the pool, in a batch of the RX ring, of the work
\* stack or of the retry deque, in the batch of a live task, in the TX ring
\* or in the drop ring.
Places(p) ==
    {<<"pool", k, 0>> : k \in {i \in 1 .. Len(pool) : pool[i] = p}}
    \cup {<<"tx", k, 0>> : k \in {i \in 1 .. Len(rings[TXQ]) :
                                    rings[TXQ][i] = p}}
    \cup {<<"drop", k, 0>> : k \in {i \in 1 .. Len(rings[DROPQ]) :
                                      rings[DROPQ][i] = p}}
    \cup UNION {{<<"rx", i, k>> : k \in {n \in 1 .. Len(rings[RXQ][i]) :
                                           rings[RXQ][i][n] = p}} :
                  i \in 1 .. Len(rings[RXQ])}
    \cup UNION {{<<"stack", i, k>> : k \in {n \in 1 .. Len(stack[i].batch) :
                                              stack[i].batch[n] = p}} :
                  i \in 1 .. Len(stack)}
    \cup UNION {{<<"retry", i, k>> : k \in {n \in 1 .. Len(retry[i].batch) :
                                              retry[i].batch[n] = p}} :
                  i \in 1 .. Len(retry)}
    \cup UNION {{<<"task", t.id, k>> : k \in {n \in 1 .. Len(t.batch) :
                                                t.batch[n] = p}} :
                  t \in LiveTasks}

\* Packet p is free: its only place is the pool.
InPool(p) == \A x \in Places(p) : x[1] = "pool"

\* A step of the data plane other than the arrival of packets and the
\* withholding of contexts.
Drain ==
    \/ IoLoop(0)
    \/ RxWakeup
    \/ RetryWakeup
    \/ ProcessBatch
    \/ Output
    \/ Offload
    \/ CoprocTake
    \/ \E t \in dev, status \in {"ok", "error"} : DeviceFinish(t, status)
    \/ TakeCompletion
    \/ \E t \in completed : PostProc(t)

LiveIds == {t.id : t \in LiveTasks}

\* C12: while a task is live its batch is pending: the batch is counted in
\* use, not free, its packets are with the task and nowhere else (not on
\* the work stack bound for a downstream element, not in the TX or drop
\* ring, not in the pool), and the task stops being live only in the step
\* in which postproc observes it.
PendingBatchHeld ==
    /\ [](/\ graph # NoGraph => batch_free + BatchesInUse = BATCHPOOL_SIZE
          /\ \A t \in LiveTasks : \A k \in 1 .. Len(t.batch) :
                Places(t.batch[k]) = {<<"task", t.id, k>>})
    /\ [][\A n \in LiveIds :
            n \notin LiveIds' =>
                /\ n \notin Observed
                /\ n \in Observed']_vars

\* C12: one task has completed and waits for postproc while another is
\* still with the device.
PendingBatchWitness ==
    /\ completed # {}
    /\ dev # {}

(* --------------------------- packet order ----------------------------- *)
\* The elements of graph g that a packet can reach only after it has been
\* through an offloadable element on some path.
PastOffload(g) ==
    LET step(S) == S \cup {t[3] : t \in {u \in g.edges : u[1] \in S}}
        first == {t[3] : t \in {u \in g.edges : Offloadable(u[1])}}
    IN  step(step(step(first)))

\* The elements before the first offloadable element, and the sink when
\* no offloadable element lies before it.
BeforeOffload(g) ==
    {e \in Elements : ~Offloadable(e) /\ e \notin PastOffload(g)}

\* The packets of s come in the order the NIC delivered them.
RxPosition(p) == CHOOSE k \in 1 .. Len(rx_order) : rx_order[k] = p
InRxOrder(s) ==
    \A i, j \in 1 .. Len(s) : i < j => RxPosition(s[i]) < RxPosition(s[j])

\* C13: the packets of the one source (I/O worker 1, its RX queue and
\* port) reach every element before the first offloadable element, and the
\* sink when there is no offload, in the order they were received.
PacketOrderKept == \A e \in BeforeOffload(graph) : InRxOrder(seen[e])

(* ------------------------ completion order ---------------------------- *)
\* Task ids are handed out in submission order, so postproc has observed
\* the tasks in submission order when the k-th one observed is task k.
InSubmissionOrder == \A k \in 1 .. Len(post_order) : post_order[k][1] = k

\* C14: with preserve_latency on, postproc observes the completed tasks of
\* the offloadable element in the order they were submitted, whatever order
\* the device finishes them in; every computation context has
\* preserve_latency on exactly when the option was given, and the flag is
\* written nowhere but in the option loop.
PostprocInOrder ==
    /\ [](comp_ready =>
             \A j \in 1 .. NumComp : CtxPreserveLatency(j) = preserve_latency)
    /\ [](CtxPreserveLatency(1) => InSubmissionOrder)
    /\ [][preserve_latency' # preserve_latency => MainAt("args")]_vars

\* postproc has observed a task, and a later task has completed while an
\* earlier one is still on the device.
PostprocInOrderWitness ==
    /\ preserve_latency
    /\ post_order # <<>>
    /\ \E t \in completed : \E u \in dev : u.id < t.id

(* ------------------------- resource bounds ---------------------------- *)
\* C15: the computation worker never has more than BATCHPOOL_SIZE batches
\* in use nor more than TASKPOOL_SIZE live tasks, and the task input ring
\* and the completion ring never hold more than their configured lengths.
ResourceBounded ==
    /\ BatchesInUse <= BATCHPOOL_SIZE
    /\ Cardinality(LiveTasks) <= TASKPOOL_SIZE
    /\ batch_free >= 0 /\ task_free >= 0 /\ ctx_free >= 0
    /\ Len(rings[TASKINQ]) <= COPROC_INPUTQ_LENGTH
    /\ Len(rings[TASKOUTQ]) <= COPROC_COMPLETIONQ_LENGTH

\* Both pools are used up at once.
ResourceBoundedWitness ==
    /\ Cardinality(LiveTasks) = TASKPOOL_SIZE
    /\ BatchesInUse = BATCHPOOL_SIZE

(* ---------------------------- drop element ---------------------------- *)
\* Nothing is in flight: every ring, the work stack and the retry deque
\* are empty and no task is live.
Quiescent ==
    /\ \A q \in {RXQ, TXQ, DROPQ} : rings[q] = <<>>
    /\ stack = <<>> /\ retry = <<>> /\ LiveTasks = {}

\* C16: Discard::process returns DROP for every packet on every input
\* port; with the graph FromDPDK(0) -> Discard no packet is transmitted,
\* every packet fed to the element goes to the drop ring in the step that
\* processes its batch, and once nothing is in flight all packets are back
\* in the pool.
DiscardDropsAll ==
    /\ [](\A input_port \in 0 .. 1 : \A pkt \in 1 .. MaxRx :
              DiscardProcess(input_port, pkt) = DROP)
    /\ [](graph.root = "Discard" =>
             /\ sent = <<>> /\ rings[TXQ] = <<>>
             /\ \A k \in 1 .. Len(seen["Discard"]) :
                   \E x \in Places(seen["Discard"][k]) :
                       /\ Places(seen["Discard"][k]) = {x}
                       /\ x[1] \in {"drop", "pool"}
             /\ Quiescent => Len(pool) = PoolSize)
    /\ [][graph.root = "Discard" /\ seen' # seen =>
             /\ seen'["Discard"] = seen["Discard"] \o Top.batch
             /\ rings'[DROPQ] = rings[DROPQ] \o Top.batch
             /\ stack' = Rest]_vars

\* Every packet has been fed to Discard, and all are back in the pool.
DiscardDropsAllWitness ==
    /\ graph.root = "Discard"
    /\ Len(seen["Discard"]) = MaxRx
    /\ Quiescent
    /\ Len(pool) = PoolSize

(* ----------------------------- requeueing ----------------------------- *)
\* A step in which the batch on top of the stack could not go on: it
\* leaves the stack and no element has taken it.
CannotGoOn == stack # <<>> /\ stack' = Rest /\ seen' = seen

\* The batch on top of the stack is appended to the retry deque.
PutOnRetry ==
    /\ retry' = Append(retry, [Top EXCEPT !.tries = @ + 1])
    /\ rings'[DROPQ] = rings[DROPQ]
    /\ batch_free' = batch_free

\* The batch on top of the stack is dropped: its packets go to the drop
\* ring, from where the I/O worker releases them, and the batch retires.
DroppedWhole ==
    /\ retry' = retry
    /\ rings'[DROPQ] = rings[DROPQ] \o Top.batch
    /\ batch_free' = batch_free + 1

\* A submission fails when the task pool is empty, the task input ring is
\* full or no context is at hand; the computation worker always has a step
\* to take for the batch on top of its stack, and for a waiting retry.
WorkerGoesOn ==
    /\ (stack # <<>> /\ Offloadable(Top.elem)
          /\ (\/ task_free = 0
              \/ Len(rings[TASKINQ]) >= RingCapacity(COPROC_INPUTQ_LENGTH)
              \/ ctx_free = 0)) => ~CanSubmit
    /\ (InLoop(COMPW) /\ stack # <<>>) =>
          ENABLED <<ProcessBatch \/ Output \/ Offload>>_vars
    /\ (InLoop(COMPW) /\ stack = <<>> /\ retry # <<>>) =>
          ENABLED <<RetryWakeup>>_vars

GivenUp == CannotGoOn /\ retry' = retry

NoEmptyBatchHeld ==
    /\ \A k \in 1 .. Len(stack) : stack[k].batch # <<>>
    /\ \A k \in 1 .. Len(retry) : retry[k].batch # <<>>
    /\ \A k \in 1 .. Len(rings[RXQ]) : rings[RXQ][k] # <<>>
    /\ \A t \in LiveTasks : t.batch # <<>>

\* C19: a batch with no live packet is never pushed to a downstream
\* element, to the TX ring or to the task input ring; a batch whose packets
\* an element has all dropped retires.
NoEmptyBatchForwarded ==
    /\ []NoEmptyBatchHeld
    /\ [][rings'[TXQ] # rings[TXQ] =>
             rings'[TXQ] = <<>> \/ Len(rings'[TXQ]) > Len(rings[TXQ])]_vars
    /\ [][(stack # <<>> /\ seen' # seen /\ Len(stack') < Len(stack)
             /\ Top.elem \in {"Discard", "Classifier"}) =>
                /\ batch_free' = batch_free + 1
                /\ rings'[DROPQ] = rings[DROPQ] \o Top.batch]_vars

\* Classifier has dropped every packet it was given: nothing went on, and
\* the packets wait in the drop ring.
NoEmptyBatchWitness ==
    /\ graph.root = "Classifier"
    /\ seen["Classifier"] # <<>>
    /\ rings[DROPQ] = seen["Classifier"]
    /\ stack = <<>> /\ retry = <<>>
    /\ seen["ToOutput"] = <<>> /\ seen["IPsecAuthHMACSHA1"] = <<>>

(* ---------------------------- device errors --------------------------- *)
\* In a two-packet batch bound for Classifier the first packet can be
\* dropped alone: the second goes on to port 0 by itself.
DropIsLocal ==
    (InLoop(COMPW) /\ stack # <<>> /\ Top.elem = "Classifier"
       /\ Len(Top.batch) = 2) =>
          ENABLED <<ProcessBatch
                    /\ rings'[DROPQ] = Append(rings[DROPQ], Top.batch[1])
                    /\ stack' = Append(Rest,
                                       [elem |-> Downstream(graph, Top.elem, 0),
                                        batch |-> <<Top.batch[2]>>,
                                        tries |-> 0])>>_vars

\* C20: when a task has completed with a device error, postproc is still
\* called for it, with a null device output; every packet of its batch is
\* killed, that is, goes to the drop ring, and none is forwarded.  A DROP
\* for one packet leaves the other packets of its batch alone: each packet
\* an element has processed is either dropped or sent on, once.
ErrorKillsBatch ==
    /\ [][\A t \in completed :
             (t \notin completed' /\ t.status = "error") =>
                /\ post_order' = Append(post_order, <<t.id, NULL>>)
                /\ rings'[DROPQ] = rings[DROPQ] \o t.batch
                /\ stack' = stack
                /\ rings'[TXQ] = rings[TXQ]
                /\ batch_free' = batch_free + 1]_vars
    /\ [][(stack # <<>> /\ seen' # seen
             /\ Top.elem \in {"Discard", "Classifier"}) =>
             \A p \in {Top.batch[k] : k \in 1 .. Len(Top.batch)} :
                 \E x \in Places(p)' :
                     /\ Places(p)' = {x}
                     /\ x[1] \in {"drop", "stack"}]_vars
    /\ []DropIsLocal

\* postproc has been called with a null device output for a failed task
\* and with a device output for another one.
ErrorKillsBatchWitness ==
    /\ \E k \in 1 .. Len(post_order) : post_order[k][2] = NULL
    /\ \E k \in 1 .. Len(post_order) : post_order[k][2] # NULL
    /\ rings[DROPQ] # <<>>

(* ============================ element bench =========================== *)
(* --------------------------- annotations ------------------------------ *)
\* The annotation table of a packet: a fixed set of ids, each slot with a
\* validity bit and a 64-bit value (the values used here are far below
\* 2^64, so a slot stores what it is given).
NBA_ANNO_IPSEC_FLOW_ID == "NBA_ANNO_IPSEC_FLOW_ID"
AnnoIds == {"NBA_ANNO_IFACE_IN", NBA_ANNO_IPSEC_FLOW_ID}
AnnoValues == {7, num_tunnels}
NoAnno == [bitmask |-> {}, values |-> [id \in AnnoIds |-> 0]]

SetsBitOnly(anno, id, v) == [anno EXCEPT !.bitmask = @ \cup {id}]
anno_set(anno, id, v) ==
    [bitmask |-> anno.bitmask \cup {id},
     values |-> [anno.values EXCEPT ![id] = v]]
anno_isset(anno, id) == id \in anno.bitmask
anno_get(anno, id) == anno.values[id]

\* Offload: the device is given the annotation table by value, and the
\* host merges the device's table back on completion.
ToDevice(anno) == anno
DropsAnnotations(host, device) == NoAnno
Merge(host, device) ==
    [bitmask |-> host.bitmask \cup device.bitmask,
     values |-> [id \in AnnoIds |->
                    IF id \in device.bitmask THEN device.values[id]
                    ELSE host.values[id]]]

(* ------------------- IPsecAuthHMACSHA1::process ------------------------ *)
\* The packets the bench feeds: the total length and header length of the
\* outer IP header as the packet states them, and an annotation table.
TotLens == {140, 2100}
IHL == 5
NewPkt(tot_len) ==
    [tot_len |-> tot_len, ihl |-> IHL, anno |-> NoAnno, killed |-> FALSE]

\* Line 160: payload_len.
PayloadLen(pkt) == pkt.tot_len - (pkt.ihl * 4) - SHA_DIGEST_LENGTH

\* Lines 167-179 stay within flows[] and hmac_buf[]: the flow id indexes
\* an array of num_tunnels entries, and payload_len bytes are copied to
\* hmac_buf + 64.
WithinBuffers(pkt) ==
    /\ anno_get(pkt.anno, NBA_ANNO_IPSEC_FLOW_ID) < num_tunnels
    /\ PayloadLen(pkt) >= 0
    /\ HMAC_PAD_SIZE + PayloadLen(pkt) <= HMAC_BUF_SIZE

\* Lines 166-186: what process() does with a packet.  With the annotation
\* set it computes the digest and pushes the packet to output 0; without,
\* it kills the packet.  Reading past flows[] or writing past hmac_buf[] is
\* undefined: the call may go on as if nothing happened, or fault.
IPsecProcess(pkt) ==
    IF anno_isset(pkt.anno, NBA_ANNO_IPSEC_FLOW_ID)
    THEN IF WithinBuffers(pkt) THEN {"push"} ELSE {"push", "fault"}
    ELSE {"kill"}

(* ------------------------------ the bench ----------------------------- *)
\* The bench assembles a batch of up to COMP_BATCH_SIZE packets and sets
\* annotations on them.
NewPacket(tot_len) ==
    /\ estage = "build"
    /\ Len(epkts) < COMP_BATCH_SIZE
    /\ epkts' = Append(epkts, NewPkt(tot_len))
    /\ UNCHANGED <<estage, eidx, eout, edev>>

Annotate(k, id, v) ==
    /\ estage = "build"
    /\ k \in 1 .. Len(epkts)
    /\ epkts' = [epkts EXCEPT ![k].anno = anno_set(@, id, v)]
    /\ UNCHANGED <<estage, eidx, eout, edev>>

\* The batch is handed to the element on the CPU.
StartProcess ==
    /\ estage = "build"
    /\ epkts # <<>>
    /\ estage' = "cpu"
    /\ eidx' = 1
    /\ UNCHANGED <<epkts, eout, edev>>

\* process() runs for the next packet of the batch, in slot order.
ProcessStep ==
    /\ estage = "cpu"
    /\ \E outcome \in IPsecProcess(epkts[eidx]) :
        /\ epkts' = [epkts EXCEPT ![eidx].killed = (outcome = "kill")]
        /\ eout' = IF outcome = "push" THEN Append(eout, eidx) ELSE eout
        /\ estage' = IF outcome = "fault" THEN "crashed"
                     ELSE IF eidx = Len(epkts) THEN "done" ELSE "cpu"
    /\ eidx' = eidx + 1
    /\ edev' = edev

\* The batch is offloaded instead: the device gets the annotation tables.
Submit ==
    /\ estage = "build"
    /\ epkts # <<>>
    /\ estage' = "pending"
    /\ edev' = [k \in 1 .. Len(epkts) |-> ToDevice(epkts[k].anno)]
    /\ UNCHANGED <<epkts, eidx, eout>>

\* The task completes: the host merges the annotation tables back.
Complete ==
    /\ estage = "pending"
    /\ estage' = "post"
    /\ epkts' = [k \in 1 .. Len(epkts) |->
                    [epkts[k] EXCEPT !.anno = Merge(@, edev[k])]]
    /\ eidx' = 1
    /\ UNCHANGED <<eout, edev>>

\* postproc() runs for the next packet of the batch.
PostprocStep ==
    /\ estage = "post"
    /\ eout' = IF Postproc(0, "output", eidx) = CONTINUE(0)
               THEN Append(eout, eidx) ELSE eout
    /\ estage' = IF eidx = Len(epkts) THEN "done" ELSE "post"
    /\ eidx' = eidx + 1
    /\ UNCHANGED <<epkts, edev>>

restvars ==
    <<pc, proc, exit_code, call, bootvars, mainvars, workervars, barriers,
      sigvars, datavars, sizevars, runvars, logvars, nlsvars, hmacvars>>
ElemRest == <<restvars, devvars, chanvars, dbvars, mastervars, compbvars>>

ElemInit == env = "elem" /\ Start

ElemNext ==
    \/ \E tot_len \in TotLens : NewPacket(tot_len) /\ UNCHANGED ElemRest
    \/ \E k \in 1 .. COMP_BATCH_SIZE, id \in AnnoIds, v \in AnnoValues :
          Annotate(k, id, v) /\ UNCHANGED ElemRest
    \/ StartProcess /\ UNCHANGED ElemRest
    \/ ProcessStep /\ UNCHANGED ElemRest
    \/ Submit /\ UNCHANGED ElemRest
    \/ Complete /\ UNCHANGED ElemRest
    \/ PostprocStep /\ UNCHANGED ElemRest

ElemSpec == ElemInit /\ [][ElemNext]_vars

Handled == 1 .. (IF estage \in {"cpu", "post"} THEN eidx - 1 ELSE Len(epkts))
Pushes(k) == Cardinality({i \in 1 .. Len(eout) : eout[i] = k})

\* C27: IPsecAuthHMACSHA1::process either forwards or kills.  A packet
\* with IPSEC_FLOW_ID set is pushed to output 0 exactly once and not
\* killed, a packet without is killed and pushed nowhere, and process()
\* goes on with the rest of the batch; postproc pushes every packet it is
\* given to output 0.
ForwardsOrKills ==
    /\ estage # "crashed"
    /\ estage \in {"cpu", "post", "done"} =>
          \A k \in Handled :
              IF edev = <<>> /\ ~anno_isset(epkts[k].anno, NBA_ANNO_IPSEC_FLOW_ID)
              THEN epkts[k].killed /\ Pushes(k) = 0
              ELSE ~epkts[k].killed /\ Pushes(k) = 1
    /\ \A input_port \in 0 .. 1 : \A k \in 1 .. COMP_BATCH_SIZE :
          Postproc(input_port, "output", k) = CONTINUE(0)

(* ============================ device bench ============================ *)
\* A device with as many compute contexts as a computation worker takes
\* (main.cc, lines 698-704).
Contexts == 1 .. COPROC_CTX_PER_COMPTHREAD
READY == "READY"
PREPARING == "PREPARING"
RUNNING == "RUNNING"
FINISHED == "FINISHED"
NoContext == 0

\* The device is created with all its contexts ready.
DeviceUp ==
    /\ cstate = <<>>
    /\ cstate' = [c \in Contexts |-> READY]
    /\ cready' = Contexts
    /\ cargs' = [c \in Contexts |-> 0]
    /\ ccall' = [fn |-> "device", result |-> NoContext]

\* get_available_context(): hands out a ready context, or none when the
\* device has none left; it does not wait for one.
GetAvailableContext ==
    /\ cstate # <<>>
    /\ IF cready = {}
       THEN /\ ccall' = [fn |-> "get_available_context", result |-> NoContext]
            /\ cready' = cready
       ELSE \E c \in cready :
               /\ ccall' = [fn |-> "get_available_context", result |-> c]
               /\ cready' = cready \ {c}
    /\ UNCHANGED <<cstate, cargs>>

\* The computation worker starts to prepare a task on a context it holds.
PrepareTask(c) ==
    /\ cstate # <<>>
    /\ c \notin cready
    /\ cstate[c] = READY
    /\ cstate' = [cstate EXCEPT ![c] = PREPARING]
    /\ ccall' = [fn |-> "prepare", result |-> c]
    /\ UNCHANGED <<cready, cargs>>

\* accel_compute_handler, line 210: cctx->push_kernel_arg(arg).
PushKernelArg(c) ==
    /\ cstate # <<>>
    /\ cstate[c] = PREPARING
    /\ cargs[c] = 0
    /\ cargs' = [cargs EXCEPT ![c] = 1]
    /\ ccall' = [fn |-> "push_kernel_arg", result |-> c]
    /\ UNCHANGED <<cstate, cready>>

\* accel_compute_handler, line 219: cctx->enqueue_kernel_launch(kern, res)
\* returns with the kernel launched, not finished.
WaitsForKernel == FINISHED
StateAfterLaunch == RUNNING

EnqueueKernelLaunch(c) ==
    /\ cstate # <<>>
    /\ cstate[c] = PREPARING
    /\ cargs[c] = 1
    /\ cstate' = [cstate EXCEPT ![c] = StateAfterLaunch]
    /\ ccall' = [fn |-> "enqueue_kernel_launch", result |-> c]
    /\ UNCHANGED <<cready, cargs>>

\* The device finishes the work queued on a context.
KernelDone(c) ==
    /\ cstate # <<>>
    /\ cstate[c] = RUNNING
    /\ cstate' = [cstate EXCEPT ![c] = FINISHED]
    /\ ccall' = [fn |-> "poll", result |-> c]
    /\ UNCHANGED <<cready, cargs>>

\* release_context(ctx): the context is ready again.
ReleaseContext(c) ==
    /\ cstate # <<>>
    /\ cstate[c] = FINISHED
    /\ cstate' = [cstate EXCEPT ![c] = READY]
    /\ cready' = cready \cup {c}
    /\ cargs' = [cargs EXCEPT ![c] = 0]
    /\ ccall' = [fn |-> "release_context", result |-> c]

DevRest == <<restvars, elemvars, chanvars, dbvars, mastervars, compbvars>>

DevInit == env = "device" /\ Start

DevNext ==
    \/ DeviceUp /\ UNCHANGED DevRest
    \/ GetAvailableContext /\ UNCHANGED DevRest
    \/ \E c \in Contexts : PrepareTask(c) /\ UNCHANGED DevRest
    \/ \E c \in Contexts : PushKernelArg(c) /\ UNCHANGED DevRest
    \/ \E c \in Contexts : EnqueueKernelLaunch(c) /\ UNCHANGED DevRest
    \/ \E c \in Contexts : KernelDone(c) /\ UNCHANGED DevRest
    \/ \E c \in Contexts : ReleaseContext(c) /\ UNCHANGED DevRest

DevSpec == DevInit /\ [][DevNext]_vars

\* The moves a context may make.
ContextCycle ==
    {<<READY, PREPARING>>, <<PREPARING, RUNNING>>, <<RUNNING, FINISHED>>,
     <<FINISHED, READY>>}

\* C22: a compute context only moves READY -> PREPARING -> RUNNING ->
\* FINISHED -> READY; only enqueue_kernel_launch takes it from PREPARING to
\* RUNNING, and it returns with the kernel running; get_available_context
\* can always be called, returns none exactly when the device has no
\* context left, and returns only contexts in state READY.
ContextLifecycle ==
    /\ [][cstate # <<>> =>
             \A c \in Contexts :
                 cstate'[c] # cstate[c] =>
                    /\ <<cstate[c], cstate'[c]>> \in ContextCycle
                    /\ (cstate[c] = PREPARING) <=>
                          ccall' = [fn |-> "enqueue_kernel_launch",
                                    result |-> c]]_vars
    /\ [][(cstate # <<>> /\ cready' # cready /\ cready' \subseteq cready) =>
             /\ ccall'.fn = "get_available_context"
             /\ cready \ cready' = {ccall'.result}
             /\ cstate'[ccall'.result] = READY]_vars
    /\ [](cstate # <<>> =>
             /\ ENABLED GetAvailableContext
             /\ cready = {} <=>
                   ~ENABLED (GetAvailableContext /\ ccall'.result # NoContext)
             /\ \A c \in cready : cstate[c] = READY)

\* Every context is handed out and busy: one is being prepared, one runs,
\* one has finished, and get_available_context has just returned none.
ContextWitness ==
    /\ cstate # <<>>
    /\ cready = {}
    /\ ccall = [fn |-> "get_available_context", result |-> NoContext]
    /\ \E c \in Contexts : cstate[c] = RUNNING
    /\ \E c \in Contexts : cstate[c] = FINISHED

(* ------------------------------ pairing ------------------------------- *)
\* Bootstrap is over: main() has filled every worker context and set
\* ready_flag (lines 932-936).
Bootstrapped == conf # NoConf /\ ready_flag

\* C23: after bootstrap every I/O worker is paired with exactly one
\* computation worker and every computation worker with exactly one I/O
\* worker: io.comp_ctx.io_ctx == io for every I/O context, and no two I/O
\* workers share a computation worker, whatever SW RX queues the
\* configuration assigns.
PairedOneToOne ==
    Bootstrapped =>
        /\ \A i \in 1 .. Len(conf.io) :
              /\ io_comp[i] \in 1 .. Len(conf.comp)
              /\ comp_io[io_comp[i]] = i
        /\ \A i, k \in 1 .. Len(conf.io) : io_comp[i] = io_comp[k] => i = k
        /\ \A j \in 1 .. Len(conf.comp) : comp_io[j] # 0

(* ============================= ring bench ============================= *)
\* One hand-off ring between a producer and a consumer, with the ev_async
\* watcher main() creates for it (lines 466-474).
MaxItems == 6
HandoffLength == 4
MaxBurst == 2

Lesser(a, b) == IF a < b THEN a ELSE b
Numbers(from, n) == [k \in 1 .. n |-> from + k - 1]

\* The event loop of the consumer starts with the watcher armed.
StartLoop ==
    /\ hcons = "off"
    /\ hcons' = "waiting"
    /\ UNCHANGED <<hring, hnotif, hprod, hnext, hgot>>

\* enqueue(items...) in burst mode: as many of the n items as fit are
\* moved; after a non-empty enqueue the producer goes on to set the
\* notifier.
Enqueue(n) ==
    /\ hcons # "off"
    /\ hprod = "idle"
    /\ LET moved == Lesser(Lesser(n, RingCapacity(HandoffLength) - Len(hring)),
                           MaxItems + 1 - hnext)
       IN /\ hring' = hring \o Numbers(hnext, moved)
          /\ hnext' = hnext + moved
          /\ hprod' = IF moved > 0 THEN "notify" ELSE "idle"
    /\ UNCHANGED <<hnotif, hcons, hgot>>

\* The producer sets the notifier; it stays set until the consumer's loop
\* takes it.
Notify ==
    /\ hprod = "notify"
    /\ hnotif' = TRUE
    /\ hprod' = "idle"
    /\ UNCHANGED <<hring, hcons, hnext, hgot>>

\* The consumer's event loop wakes on the notifier and clears it.
Wake ==
    /\ hcons = "waiting"
    /\ hnotif
    /\ hnotif' = FALSE
    /\ hcons' = "draining"
    /\ UNCHANGED <<hring, hprod, hnext, hgot>>

\* dequeue(items...) in burst mode.
Dequeue ==
    /\ hcons = "draining"
    /\ hring # <<>>
    /\ LET moved == Lesser(MaxBurst, Len(hring))
       IN /\ hgot' = hgot \o SubSeq(hring, 1, moved)
          /\ hring' = SubSeq(hring, moved + 1, Len(hring))
    /\ UNCHANGED <<hnotif, hprod, hcons, hnext>>

\* The consumer drains until the ring is empty, and waits again.
OneBurstIsEnough(ring) == TRUE
DrainedDry(ring) == ring = <<>>

Sleep ==
    /\ hcons = "draining"
    /\ DrainedDry(hring)
    /\ hcons' = "waiting"
    /\ UNCHANGED <<hring, hnotif, hprod, hnext, hgot>>

RingRest == <<restvars, elemvars, devvars, dbvars, mastervars, compbvars>>

RingInit == env = "ring" /\ Start

RingNext ==
    \/ StartLoop /\ UNCHANGED RingRest
    \/ \E n \in 0 .. MaxBurst : Enqueue(n) /\ UNCHANGED RingRest
    \/ Notify /\ UNCHANGED RingRest
    \/ Wake /\ UNCHANGED RingRest
    \/ Dequeue /\ UNCHANGED RingRest
    \/ Sleep /\ UNCHANGED RingRest

RingSpec == RingInit /\ [][RingNext]_vars

\* Fair scheduling: a producer that has enqueued gets to set the notifier,
\* and the consumer's loop is not starved.
RingFairSpec ==
    /\ RingSpec
    /\ WF_vars(Notify /\ UNCHANGED RingRest)
    /\ WF_vars(Wake /\ UNCHANGED RingRest)
    /\ WF_vars(Dequeue /\ UNCHANGED RingRest)
    /\ WF_vars(Sleep /\ UNCHANGED RingRest)

InHring(k) == \E i \in 1 .. Len(hring) : hring[i] = k
InHgot(k) == \E i \in 1 .. Len(hgot) : hgot[i] = k

\* C24: after a non-empty enqueue the producer sets the notifier, a woken
\* consumer goes back to waiting only on an empty ring, the items leave
\* the ring in the order they entered, and every item enqueued is
\* eventually dequeued.
NoLostWakeup ==
    /\ [][(Len(hring') > Len(hring)) => hprod' = "notify"]_vars
    /\ [][(hprod = "notify" /\ hprod' # "notify") => hnotif']_vars
    /\ [][(hcons = "draining" /\ hcons' = "waiting") => hring = <<>>]_vars
    /\ [](hring # <<>> => hnotif \/ hprod = "notify" \/ hcons = "draining")
    /\ [](hgot \o hring = Numbers(1, hnext - 1))
    /\ \A k \in 1 .. MaxItems : InHring(k) ~> InHgot(k)

\* The consumer has drained more than one burst and waits again, and the
\* producer has enqueued since and not yet set the notifier.
NoLostWakeupWitness ==
    /\ hcons = "waiting"
    /\ ~hnotif
    /\ hprod = "notify"
    /\ hring # <<>>
    /\ Len(hgot) > MaxBurst

(* ------------------------------- locks -------------------------------- *)
\* The locks taken in a step, each with the thread that takes it:
\* ready_cond by main() (lines 933-936) and by a computation worker that
\* waits on it before its loop, _exit_cond by main() once the master's I/O
\* loop has returned (lines 950-955) and by handle_signal() (lines 981-984).
\* The workers' loops take none.
LocksTaken ==
    (IF ~ready_flag /\ ready_flag' THEN {<<"main", "ready_cond">>} ELSE {})
    \cup (IF pc = "master_loop" /\ pc' = "wait_exit"
          THEN {<<"main", "_exit_cond">>} ELSE {})
    \cup (IF ~terminated /\ terminated'
          THEN {<<"handler", "_exit_cond">>} ELSE {})
    \cup {<<"comp", "ready_cond">> :
            j \in {k \in DOMAIN compw \cap DOMAIN compw' :
                      compw[k] = "waiting" /\ compw'[k] = "running"}}

\* A packet moves in this step.
TrafficStep == datavars' # datavars

MaxBatches == 2
FixedItems == {<<1, 2>>, <<3, 4>>}
VariableItems == {<<5>>, <<6, 7>>}
Layouts == {"fixed", "variable"}
ItemsOf(layout) == IF layout = "fixed" THEN FixedItems ELSE VariableItems

\* The size of every item of a fixed-stride datablock.
StrideOf(layout) ==
    IF layout = "fixed" THEN Len(CHOOSE i \in FixedItems : TRUE) ELSE 0

\* A batch with at most COMP_BATCH_SIZE live packets: the items of its live
\* packets in slot order.
BatchesOf(layout) ==
    UNION {[1 .. n -> ItemsOf(layout)] : n \in 0 .. COMP_BATCH_SIZE}

TasksOf(layout) ==
    UNION {[1 .. n -> BatchesOf(layout)] : n \in 1 .. MaxBatches}

RECURSIVE Concat(_)
Concat(items) ==
    IF items = <<>> THEN <<>> ELSE Head(items) \o Concat(Tail(items))

RECURSIVE SumOf(_)
SumOf(ns) == IF ns = <<>> THEN 0 ELSE Head(ns) + SumOf(Tail(ns))

\* item_offsets_in[k]: where item k of the batch starts in its buffer.
NoOffset(batch, k) == 0
OffsetOf(batch, k) == Len(Concat(SubSeq(batch, 1, k - 1)))

\* One datablock_batch_info record (part_001, lines 12-21): the buffer, the
\* item counts (uint32_t) and, under a variable stride, the item sizes
\* (uint16_t) and offsets; under a fixed stride these arrays are absent.
PackBatch(batch, layout) ==
    [buffer_bases_in |-> Concat(batch),
     item_count_in |-> Len(batch),
     item_count_out |-> Len(batch),
     item_sizes_in |-> IF layout = "fixed" THEN <<>>
                       ELSE [k \in 1 .. Len(batch) |-> Len(batch[k]) % 2^16],
     item_offsets_in |-> IF layout = "fixed" THEN <<>>
                         ELSE [k \in 1 .. Len(batch) |-> OffsetOf(batch, k)]]

\* The datablock_kernel_arg header (part_001, lines 23-29) followed by one
\* record per batch.
Pack(batches, layout) ==
    LET infos == [n \in 1 .. Len(batches) |-> PackBatch(batches[n], layout)]
    IN [total_item_count_in |->
            SumOf([n \in 1 .. Len(infos) |-> infos[n].item_count_in]),
        total_item_count_out |->
            SumOf([n \in 1 .. Len(infos) |-> infos[n].item_count_out]),
        item_size_in |-> StrideOf(layout) % 2^16,
        item_size_out |-> StrideOf(layout) % 2^16,
        batches |-> infos]

\* Item k of a record: item_size_in bytes at k times the stride when the
\* header gives a stride, else item_sizes_in[k] bytes at item_offsets_in[k].
UnpackItem(arg, info, k) ==
    IF arg.item_size_in > 0
    THEN SubSeq(info.buffer_bases_in, (k - 1) * arg.item_size_in + 1,
                k * arg.item_size_in)
    ELSE SubSeq(info.buffer_bases_in, info.item_offsets_in[k] + 1,
                info.item_offsets_in[k] + info.item_sizes_in[k])

Unpack(arg) ==
    [n \in 1 .. Len(arg.batches) |->
        [k \in 1 .. arg.batches[n].item_count_in |->
            UnpackItem(arg, arg.batches[n], k)]]

ChooseTask(layout, batches) ==
    /\ dstage = "input"
    /\ dlayout' = layout
    /\ din' = batches
    /\ dstage' = "chosen"
    /\ UNCHANGED <<dpacked, dout>>

PackTask ==
    /\ dstage = "chosen"
    /\ dpacked' = Pack(din, dlayout)
    /\ dstage' = "packed"
    /\ UNCHANGED <<din, dlayout, dout>>

UnpackTask ==
    /\ dstage = "packed"
    /\ dout' = Unpack(dpacked)
    /\ dstage' = "unpacked"
    /\ UNCHANGED <<din, dlayout, dpacked>>

DbRest == <<restvars, elemvars, devvars, chanvars, mastervars, compbvars>>

DbInit == env = "datablock" /\ Start

DbNext ==
    \/ \E layout \in Layouts : \E batches \in TasksOf(layout) :
          ChooseTask(layout, batches) /\ UNCHANGED DbRest
    \/ PackTask /\ UNCHANGED DbRest
    \/ UnpackTask /\ UNCHANGED DbRest

DbSpec == DbInit /\ [][DbNext]_vars

\* C26: unpacking the packed form of a task's batches gives the batches
\* back, under a fixed and under a variable stride, and the item counts of
\* the batch records sum to the totals of the header.
PackRoundTrip ==
    /\ dstage \in {"packed", "unpacked"} =>
          /\ Len(dpacked.batches) = Len(din)
          /\ dpacked.total_item_count_in =
                SumOf([n \in 1 .. Len(din) |-> Len(din[n])])
          /\ dpacked.total_item_count_in =
                SumOf([n \in 1 .. Len(dpacked.batches) |->
                          dpacked.batches[n].item_count_in])
          /\ dpacked.total_item_count_out =
                SumOf([n \in 1 .. Len(dpacked.batches) |->
                          dpacked.batches[n].item_count_out])
    /\ dstage = "unpacked" => dout = din

\* A task of two batches under a variable stride, one of them full with
\* items of different sizes, the other empty, has made the round trip.
PackRoundTripWitness ==
    /\ dstage = "unpacked"
    /\ dlayout = "variable"
    /\ Len(din) = MaxBatches
    /\ \E n \in 1 .. Len(din) :
          /\ Len(din[n]) = COMP_BATCH_SIZE
          /\ \E k \in 1 .. Len(din[n]) : Len(din[n][k]) # Len(din[n][1])
    /\ \E n \in 1 .. Len(din) : din[n] = <<>>

(* ------------------------- outstanding offloads ----------------------- *)
\* The batch on top of the work stack is bound for the offloadable element
\* while the cap on outstanding offloads is reached.
CapReached ==
    /\ stack # <<>>
    /\ Offloadable(Top.elem)
    /\ Outstanding >= COPROC_PPDEPTH

\* C28: the tasks submitted and not yet post-processed never exceed
\* COPROC_PPDEPTH, and a batch that meets the cap is put on the retry deque
\* or dropped, and no task is submitted for it.
PpdepthCapped ==
    /\ [](Outstanding <= COPROC_PPDEPTH)
    /\ [][(CapReached /\ stack' # stack) =>
             /\ ntask' = ntask
             /\ UNCHANGED <<dev, completed>>
             /\ rings'[TASKINQ] = rings[TASKINQ]
             /\ \/ /\ Len(retry') = Len(retry) + 1
                   /\ retry'[Len(retry')].batch = Top.batch
                \/ /\ retry' = retry
                   /\ rings'[DROPQ] = rings[DROPQ] \o Top.batch]_vars

\* A batch has been put on the retry deque because the cap was reached
\* while the task pool still had a task and the device a context.
PpdepthWitness ==
    /\ Outstanding = COPROC_PPDEPTH
    /\ task_free > 0
    /\ ctx_free > 0
    /\ Len(rings[TASKINQ]) < RingCapacity(COPROC_INPUTQ_LENGTH)
    /\ retry # <<>>
    /\ Offloadable(retry[1].elem)

(* --------------------------- task lifecycle --------------------------- *)
\* Where the task with this id is: on the coprocessor input ring, on the
\* device, on the completion ring, taken off it by the computation worker,
\* or freed after its postproc.
TaskStages(id) ==
    (IF \E k \in 1 .. Len(rings[TASKINQ]) : rings[TASKINQ][k].id = id
     THEN {"input_ring"} ELSE {})
    \cup (IF \E t \in dev : t.id = id THEN {"device"} ELSE {})
    \cup (IF \E k \in 1 .. Len(rings[TASKOUTQ]) : rings[TASKOUTQ][k].id = id
          THEN {"completion_ring"} ELSE {})
    \cup (IF \E t \in completed : t.id = id THEN {"completed"} ELSE {})
    \cup (IF id \in Observed THEN {"freed"} ELSE {})

\* The steps of the lifecycle.
TaskSteps ==
    {<<{}, {"input_ring"}>>, <<{"input_ring"}, {"device"}>>,
     <<{"device"}, {"completion_ring"}>>,
     <<{"completion_ring"}, {"completed"}>>, <<{"completed"}, {"freed"}>>}

MaxIoThreads == 4

IoPlacements ==
    UNION {[1 .. k -> NodeIds(MaxNodes)] : k \in 1 .. MaxIoThreads}

\* Lines 799-832 and 837: node_master_ctxs[node_id] = nullptr and
\* per_node_counts = {0,}, before the contexts of the configured I/O
\* threads are created.
StartIoLoop(nodes) ==
    /\ io_nodes = <<>>
    /\ io_nodes' = nodes
    /\ per_node_counts' = [n \in NodeIds(MaxNodes) |-> 0]
    /\ node_master_ctxs' = [n \in NodeIds(MaxNodes) |-> 0]
    /\ io_ctxs' = <<>>

\* Line 855: the context becomes the master of its node.
EveryoneMaster(local_thread_idx) == TRUE
IsNodeMaster(local_thread_idx) == local_thread_idx = 0

\* Lines 842-858, one turn of the loop: the context of I/O thread i.
CreateIoCtx ==
    /\ io_nodes # <<>>
    /\ Len(io_ctxs) < Len(io_nodes)
    /\ LET i == Len(io_ctxs) + 1
           node_id == io_nodes[i]
           local_thread_idx == per_node_counts[node_id]
           masters == IF IsNodeMaster(local_thread_idx)
                      THEN [node_master_ctxs EXCEPT ![node_id] = i]
                      ELSE node_master_ctxs
       IN /\ per_node_counts' = [per_node_counts EXCEPT ![node_id] = @ + 1]
          /\ node_master_ctxs' = masters
          /\ io_ctxs' = Append(io_ctxs,
                               [node_id |-> node_id,
                                local_thread_idx |-> local_thread_idx,
                                global_thread_idx |-> i - 1,
                                node_master_ctx |-> masters[node_id]])
    /\ UNCHANGED io_nodes

IoBenchRest == <<restvars, elemvars, devvars, chanvars, dbvars, compbvars>>

IoBenchInit == env = "io" /\ Start

IoBenchNext ==
    \/ \E nodes \in IoPlacements : StartIoLoop(nodes) /\ UNCHANGED IoBenchRest
    \/ CreateIoCtx /\ UNCHANGED IoBenchRest

IoBenchSpec == IoBenchInit /\ [][IoBenchNext]_vars

\* The I/O contexts created so far on node n, in creation order.
CtxsOnNode(n) == {i \in 1 .. Len(io_ctxs) : io_ctxs[i].node_id = n}

\* C30: every node that hosts I/O workers has exactly one node master, the
\* first I/O context created on the node (local_thread_idx 0); every I/O
\* context of the node refers to it, hence to a master on its own node; and
\* the contexts of a node have the local_thread_idx values 0, 1, 2, ... in
\* creation order.
OneNodeMaster ==
    io_nodes # <<>> =>
        \A n \in NodeIds(MaxNodes) :
            CtxsOnNode(n) # {} =>
                LET first == CHOOSE i \in CtxsOnNode(n) :
                                \A k \in CtxsOnNode(n) : i <= k
                IN /\ node_master_ctxs[n] = first
                   /\ io_ctxs[first].local_thread_idx = 0
                   /\ \A i \in CtxsOnNode(n) :
                         /\ io_ctxs[i].node_master_ctx = first
                         /\ io_ctxs[io_ctxs[i].node_master_ctx].node_id = n
                         /\ io_ctxs[i].local_thread_idx =
                               Cardinality({k \in CtxsOnNode(n) : k < i})
                   /\ Cardinality({i \in CtxsOnNode(n) :
                                     io_ctxs[i].local_thread_idx = 0}) = 1

\* Two nodes host I/O workers, the workers of a node are not created one
\* after the other, and a node has a worker that is not its master.
OneNodeMasterWitness ==
    /\ io_nodes # <<>>
    /\ Len(io_ctxs) = Len(io_nodes)
    /\ \E i, j, k \in 1 .. Len(io_ctxs) :
          /\ i < j /\ j < k
          /\ io_ctxs[i].node_id = io_ctxs[k].node_id
          /\ io_ctxs[j].node_id # io_ctxs[i].node_id
          /\ io_ctxs[k].node_master_ctx = i

(* ============================= comp bench ============================= *)
\* The loop of lines 615-722 over comp_thread_confs, for any placement of
\* the computation threads on the NUMA nodes.
MaxCompThreads == 4

CompPlacements ==
    UNION {[1 .. k -> NodeIds(MaxNodes)] : k \in 1 .. MaxCompThreads}

\* The most coprocessor threads (each with its device) configured.  For the
\* task input queue of a computation thread queue_privs gives one of them
\* (lines 532-592 store the context of coprocessor thread d at
\* queue_privs[conf.taskinq_idx]) or nullptr, 0 (lines 444-445).
MaxDevices == 2

\* A compute context of device d, as the device creates it.
ContextOf(d, k) == [device |-> d, idx |-> k, state |-> READY]

\* The device of coprocessor thread d is built for the computation threads
\* that feed it, COPROC_CTX_PER_COMPTHREAD contexts for each.
DeviceContexts(privs, d) ==
    LET feeders == Cardinality({j \in DOMAIN privs : privs[j] = d})
    IN [k \in 1 .. feeders * COPROC_CTX_PER_COMPTHREAD |-> ContextOf(d, k)]

\* Lines 615-620: nls[j] = nullptr for every node.
StartCompLoop(nodes, devices, privs) ==
    /\ comp_nodes = <<>>
    /\ comp_nodes' = nodes
    /\ nls' = [n \in NodeIds(MaxNodes) |-> 0]
    /\ heap' = 0
    /\ comp_ctxs' = <<>>
    /\ taskinq_privs' = privs
    /\ ready_contexts' = [d \in 1 .. devices |-> DeviceContexts(privs, d)]

\* Line 628: the node has no NodeLocalStorage yet.
StorageEachTime(storage) == TRUE
NeedsStorage(storage) == storage = 0

\* Lines 698-704: COPROC_CTX_PER_COMPTHREAD calls of get_available_context(),
\* each handing out the next context of the device that is not handed out
\* yet (the two asserts hold: none is nullptr, each is READY).
TakeContexts(ready) == SubSeq(ready, 1, COPROC_CTX_PER_COMPTHREAD)
LeaveContexts(ready) == SubSeq(ready, COPROC_CTX_PER_COMPTHREAD + 1, Len(ready))

\* Lines 665-713: with coprocessor threads configured and one behind the
\* thread's task input queue, NEW creates cctx_list and the loop fills it;
\* with coprocessor threads configured and none behind the queue (667-670)
\* cctx_list is not assigned; without coprocessor threads NEW creates it
\* and it stays empty.
CctxListCreated(num_coproc_threads, coproc_ctx) ==
    num_coproc_threads = 0 \/ coproc_ctx # 0

\* Lines 624-713, one turn of the loop: NEW gives an object no earlier NEW
\* gave; the node's storage is created on the first turn for the node, the
\* context and its ElementGraph on every turn.
CreateCompCtx ==
    /\ comp_nodes # <<>>
    /\ Len(comp_ctxs) < Len(comp_nodes)
    /\ LET i == Len(comp_ctxs) + 1
           node_id == comp_nodes[i]
           fresh == NeedsStorage(nls[node_id])
           storages == IF fresh THEN [nls EXCEPT ![node_id] = heap + 1]
                       ELSE nls
           base == IF fresh THEN heap + 1 ELSE heap
           num_coproc_threads == Len(ready_contexts)
           coproc_ctx == IF num_coproc_threads > 0 THEN taskinq_privs[i] ELSE 0
           created == CctxListCreated(num_coproc_threads, coproc_ctx)
       IN /\ nls' = storages
          /\ heap' = IF created THEN base + 3 ELSE base + 2
          /\ comp_ctxs' = Append(comp_ctxs,
                                 [ctx |-> base + 1,
                                  node_id |-> node_id,
                                  node_local_storage |-> storages[node_id],
                                  elem_graph |-> base + 2,
                                  coproc_ctx |-> coproc_ctx,
                                  cctx_list |-> IF created THEN base + 3 ELSE 0,
                                  contexts |->
                                      IF coproc_ctx # 0
                                      THEN TakeContexts(ready_contexts[coproc_ctx])
                                      ELSE <<>>])
          /\ ready_contexts' =
                 IF coproc_ctx # 0
                 THEN [ready_contexts EXCEPT ![coproc_ctx] = LeaveContexts(@)]
                 ELSE ready_contexts
    /\ UNCHANGED <<comp_nodes, taskinq_privs>>

CompBenchRest == <<restvars, elemvars, devvars, chanvars, dbvars, mastervars>>

CompBenchInit == env = "comp" /\ Start

CompBenchNext ==
    \/ /\ comp_nodes = <<>>
       /\ \E nodes \in CompPlacements :
             \E devices \in 0 .. MaxDevices :
                 \E privs \in [1 .. Len(nodes) -> 0 .. devices] :
                     StartCompLoop(nodes, devices, privs)
       /\ UNCHANGED CompBenchRest
    \/ CreateCompCtx /\ UNCHANGED CompBenchRest

CompBenchSpec == CompBenchInit /\ [][CompBenchNext]_vars

\* C31: every computation context has an ElementGraph of its own, which is
\* no other context's graph, context or storage; the contexts of one node
\* share one NodeLocalStorage and contexts of different nodes never do.
GraphsNotShared ==
    \A i, j \in 1 .. Len(comp_ctxs) :
        /\ comp_ctxs[i].elem_graph # 0
        /\ comp_ctxs[i].node_local_storage # 0
        /\ comp_ctxs[i].elem_graph # comp_ctxs[j].node_local_storage
        /\ comp_ctxs[i].elem_graph # comp_ctxs[j].ctx
        /\ i # j => comp_ctxs[i].elem_graph # comp_ctxs[j].elem_graph
        /\ (comp_ctxs[i].node_id = comp_ctxs[j].node_id) <=>
              (comp_ctxs[i].node_local_storage = comp_ctxs[j].node_local_storage)

\* Two computation workers of one node were created with a worker of
\* another node between them.
GraphsNotSharedWitness ==
    /\ comp_nodes # <<>>
    /\ Len(comp_ctxs) = Len(comp_nodes)
    /\ \E i, j, k \in 1 .. Len(comp_ctxs) :
          /\ i < j /\ j < k
          /\ comp_ctxs[i].node_id = comp_ctxs[k].node_id
          /\ comp_ctxs[j].node_id # comp_ctxs[i].node_id

(* ----------------------- NodeLocalStorage frozen ---------------------- *)
\* C32: regions of NodeLocalStorage are allocated only by per-node init,
\* written only by per-node init and offload init, and only read by
\* per-thread init and packet processing; no allocation or write is made
\* once an I/O worker has been launched, and every region read or written
\* has been allocated.
NlsWrittenOnlyInInit ==
    \A a \in nls_log :
        /\ a.op = "alloc" => a.phase = "per_node"
        /\ a.op = "write" => a.phase \in {"per_node", "offload"}
        /\ a.phase \in {"per_thread", "process"} => a.op = "read"
        /\ a.op \in {"alloc", "write"} => ~a.traffic
        /\ a.op # "alloc" => a.found

\* The storage has been allocated and written by per-node init, written by
\* offload init, read by per-thread init and read by packet processing
\* under traffic.
NlsWitness ==
    /\ \E a \in nls_log : a.op = "write" /\ a.phase = "offload"
    /\ \E a \in nls_log : a.op = "read" /\ a.phase = "per_thread"
    /\ \E a \in nls_log : a.op = "read" /\ a.phase = "process" /\ a.traffic
    /\ \E a \in nls_log : a.op = "alloc"

(* ------------------------------- C33 ---------------------------------- *)
\* Coprocessor worker i has been released from its loop-start barrier or
\* is in its event loop.
CoprocReleased(i) == <<"loopstart", i>> \in barriers \/ cw[i] = "running"

\* C33: no coprocessor worker is released from its loop-start barrier, or
\* runs its event loop, before global init, per-node init of every node with
\* a computation worker, offload init and per-thread init of every
\* computation worker have completed; and a coprocessor worker is spawned
\* only after every worker spawned before it has signalled that its thread
\* and device initialization is done.
CoprocLoopAfterInits ==
    /\ \A i \in Coprocs :
           CoprocReleased(i) =>
               /\ global_inits = 1
               /\ PerNodeDone
               /\ OffloadDone
               /\ PerThreadDone
    /\ \A i, j \in Coprocs :
           i < j /\ cw[j] # "unspawned" =>
               <<"thread_init_done", i>> \in barriers

\* C33: two coprocessor workers were brought up and one of them runs its
\* event loop after the init phases.
CoprocLoopWitness ==
    /\ NumCoproc >= 2
    /\ NumComp >= 2
    /\ \E i \in Coprocs : cw[i] = "running"
    /\ \A i \in Coprocs : <<"thread_init_done", i>> \in barriers

(* ------------------------------- C34 ---------------------------------- *)
\* C34: once the positional arguments have been handled, fewer than two or
\* more than two of them have ended the process with a failure status, and
\* with exactly two main() goes on with the first copied into system_config
\* and the second into pipeline_config.
ExactlyTwoPositional ==
    (call.fn \in {"rte_set_log_level", "rte_exit"} /\ call.level # INVALID) =>
        /\ call.npos < 2 => proc = "exited" /\ exit_code = EXIT_FAILURE
        /\ call.npos > 2 => proc = "exited" /\ exit_code = EXIT_FAILURE
        /\ call.npos = 2 =>
               /\ pc = "ports"
               /\ system_config = GIVEN
               /\ pipeline_config = GIVEN

(* ------------------------------- C35 ---------------------------------- *)
\* C35: a computation context with a coprocessor thread behind its task
\* input queue has a context list of exactly COPROC_CTX_PER_COMPTHREAD
\* contexts, each READY; no compute context is in the lists of two
\* computation contexts; and a computation context with no coprocessor has
\* a context list, which is empty.
CctxListsAsStated ==
    \A i \in 1 .. Len(comp_ctxs) :
        /\ comp_ctxs[i].coproc_ctx # 0 =>
               /\ comp_ctxs[i].cctx_list # 0
               /\ Len(comp_ctxs[i].contexts) = COPROC_CTX_PER_COMPTHREAD
               /\ \A k \in 1 .. Len(comp_ctxs[i].contexts) :
                      comp_ctxs[i].contexts[k].state = READY
        /\ \A j \in 1 .. Len(comp_ctxs) :
               i # j => \A k \in 1 .. Len(comp_ctxs[i].contexts) :
                            \A l \in 1 .. Len(comp_ctxs[j].contexts) :
                                comp_ctxs[i].contexts[k] # comp_ctxs[j].contexts[l]
        /\ comp_ctxs[i].coproc_ctx = 0 =>
               /\ comp_ctxs[i].cctx_list # 0
               /\ comp_ctxs[i].contexts = <<>>

(* ------------------------------- C36 ---------------------------------- *)
\* handle_signal() has got past its thread check.
HandlerActed == hpc # "idle" \/ notified # {} \/ terminated

\* C36: the process has returned 0 only with _terminated set; a step that
\* sets _terminated is taken by the handler after rte_eal_mp_wait_lcore()
\* has returned, no launched lcore running a worker any more; and the
\* handler fires a notifier or sets the flag only when it has run on the
\* main thread.
ReturnAfterTerminated ==
    /\ [](proc = "exited" /\ exit_code = 0 => terminated)
    /\ [][~terminated /\ terminated' => hpc = "wait_lcore" /\ LcoresDone]_vars
    /\ [](HandlerActed => MAIN_THREAD \in sig_threads)
    /\ [][sig_threads' # sig_threads /\ MAIN_THREAD \notin sig_threads'
            => UNCHANGED <<notified, terminated, hpc>>]_vars

\* C36: the process has returned 0 with several I/O workers launched, after
\* a signal was also handled on a thread other than the main thread.
ReturnAfterTerminatedWitness ==
    /\ proc = "exited"
    /\ exit_code = 0
    /\ terminated
    /\ NumIo >= 2
    /\ OTHER_THREAD \in sig_threads

(* ------------------------------- C37 ---------------------------------- *)
\* C37: whenever a signal reaches the main thread once the handlers are
\* registered, the handler gets through its two loops without a fault:
\* the process is never killed inside handle_signal(), and a loop that has
\* been passed found its table allocated and filled.
SignalSafeAnytime ==
    /\ ~(proc = "crashed" /\ hpc \in {"coproc", "io"})
    /\ hpc = "io" => table_alloc
    /\ hpc = "wait_lcore" => (NumIo > 0 => io_alloc /\ io_filled = NumIo)

(* ------------------------------- C38 ---------------------------------- *)
\* C38: every spawned coprocessor worker is the one recorded for its node in
\* coprocessor_threads; once main() has gone on to launch the I/O workers
\* its loop-start barrier has been released; and once handle_signal() has
\* gone through its notification loops its terminate watcher has been fired.
CoprocsReachable ==
    \A i \in Coprocs :
        cw[i] # "unspawned" =>
            /\ coprocessor_threads[CoprocNode(i)] = i
            /\ IoLaunched => <<"loopstart", i>> \in barriers
            /\ hpc = "wait_lcore" => <<"coproc", i>> \in notified

(* ------------------------------- C39 ---------------------------------- *)
\* C39: the HMAC key array is allocated by global init and by nothing
\* else; every per-node init that copies it finds the pointer on the live
\* array, neither NULL nor freed; free() is called on it at most once, by the
\* first per-thread init that runs, after which the pointer is NULL and
\* stays so through the later per-thread inits; and the assert of per-node
\* init never fails.
HmacKeyLifecycle ==
    /\ global_inits = 0 => hmac_sa_entry_array = NULL_PTR /\ hmac_log = {}
    /\ (global_inits > 0 /\ ~PerThreadBegun) =>
           hmac_sa_entry_array = ALLOCATED /\ hmac_frees = 0
    /\ \A e \in hmac_log :
           /\ e[1] = "malloc" => e[2] = NULL_PTR
           /\ e[1] \in {"copy", "free"} => e[2] = ALLOCATED
    /\ PerNodeBegun => <<"copy", ALLOCATED>> \in hmac_log
    /\ PerThreadBegun => hmac_frees = 1 /\ hmac_sa_entry_array = NULL_PTR
    /\ ~(pc = "per_node" /\ proc = "crashed" /\ hpc = "idle")

\* C39: per-thread init has run for two computation workers, on a machine
\* where per-node init has run on two nodes.
HmacKeyWitness ==
    /\ \E j, k \in Comps :
           j # k /\ per_thread_inits[j] > 0 /\ per_thread_inits[k] > 0
    /\ \E n, m \in NodeIds(conf.num_nodes) :
           n # m /\ per_node_inits[n] > 0 /\ per_node_inits[m] > 0
    /\ hmac_frees = 1
====
